---- MODULE Spec2Model ----
(***************************************************************************)
(* The Morning Update: the data-fetching route handlers.                   *)
(*                                                                         *)
(* Text is modelled as a sequence of one-character strings, so that the    *)
(* splitting, trimming, lower-casing and number conversion of the parsers  *)
(* are computed as the code computes them.  A response body is the         *)
(* sequence of its lines (the text split on "\n").  A number is an         *)
(* integer count of thousandths: 22.5 is 22500, 0.85 is 850.               *)
(*                                                                         *)
(* A const binding of the code that is read more than once is passed on    *)
(* as the parameter of a helper operator, so every operator below reads    *)
(* each intermediate result of the code it models exactly once.            *)
(***************************************************************************)
EXTENDS Integers, Sequences, FiniteSets, TLC

VARIABLES
    pc,        \* position of the running handler
    idx,       \* 1-based index of the source being tried in the current chain
    net,       \* state of the awaited I/O of the current attempt
    timer,     \* armed setTimeout handles of fetchText/fetchJSON, by source
    log,       \* history: the attempts made so far, <<[chain, src, st, empty]>>, st the
               \* attempt's fate, empty whether an accepted body held no numeral
    failures,  \* the ways in which attempts of this run have failed
    vix,       \* GET's local vix
    putCall,   \* GET's local putCall
    aaii,      \* GET's local aaii
    stale,     \* GET's local stale
    response,  \* what the handler resolved with (NoResponse until then)
    fredKey,   \* process.env.FRED_API_KEY is set
    csv,       \* input of the parser under test
    got        \* results of the parsers on csv

vars == <<pc, idx, net, timer, log, failures, vix, putCall, aaii, stale, response, fredKey, csv, got>>

-----------------------------------------------------------------------------
(* JavaScript values *)

Null == [t |-> "null", v |-> 0]
NaN == [t |-> "nan", v |-> 0]
Undefined == [t |-> "undefined", v |-> 0]
Num(n) == [t |-> "num", v |-> n]

\* Number.isFinite(x) / isFinite(x) on a number-or-null value
IsFinite(x) == x.t = "num"

\* x == null (loose equality: null or undefined)
IsNullish(x) == x.t \in {"null", "undefined"}

\* truthiness of a number | null | undefined value
Truthy(x) == x.t = "num" /\ x.v # 0

\* Number.isFinite(n) ? n : null
FiniteOrNull(n) == IF IsFinite(n) THEN n ELSE Null

\* a ?? b
Coalesce(a, b) == IF IsNullish(a) THEN b ELSE a

\* row[i] for a 0-based index i; out of range reads undefined
UndefCell == <<"undefined">>
At(row, i) == IF i >= 0 /\ i + 1 <= Len(row) THEN row[i + 1] ELSE UndefCell

\* the largest member of a set of positive integers, 0 for the empty set
MaxOf(S) == IF S = {} THEN 0 ELSE CHOOSE i \in S : \A j \in S : j <= i

\* the smallest member of a set of positive integers, 0 for the empty set
MinOf(S) == IF S = {} THEN 0 ELSE CHOOSE i \in S : \A j \in S : i <= j

-----------------------------------------------------------------------------
(* Strings *)

Digits == <<"0", "1", "2", "3", "4", "5", "6", "7", "8", "9">>
UpperCase ==
    <<"A", "B", "C", "D", "E", "F", "G", "H", "I", "J", "K", "L", "M",
      "N", "O", "P", "Q", "R", "S", "T", "U", "V", "W", "X", "Y", "Z">>
LowerCase ==
    <<"a", "b", "c", "d", "e", "f", "g", "h", "i", "j", "k", "l", "m",
      "n", "o", "p", "q", "r", "s", "t", "u", "v", "w", "x", "y", "z">>
WhiteSpace == {" ", "\t", "\r"}
Separators == {",", ";", "\t"}

\* the 1-based position of c in alphabet, 0 when it is not there
PosIn(alphabet, c) == MinOf({k \in 1..Len(alphabet) : alphabet[k] = c})

IsDigit(c) == PosIn(Digits, c) > 0
DigitVal(c) == PosIn(Digits, c) - 1

\* a toLowerCase that is left out
KeepCase(s) == s

\* String.prototype.toLowerCase
LowerAt(c, k) == IF k = 0 THEN c ELSE LowerCase[k]
LowerChar(c) == LowerAt(c, PosIn(UpperCase, c))
ToLowerCase(s) == [k \in 1..Len(s) |-> LowerChar(s[k])]

\* String.prototype.includes
Includes(s, sub) ==
    \E k \in 0..(Len(s) - Len(sub)) : SubSeq(s, k + 1, k + Len(sub)) = sub

\* String.prototype.trim
RECURSIVE TrimLeft(_)
TrimLeft(s) ==
    IF s # <<>> /\ Head(s) \in WhiteSpace THEN TrimLeft(Tail(s)) ELSE s
RECURSIVE TrimRight(_)
TrimRight(s) ==
    IF s # <<>> /\ s[Len(s)] \in WhiteSpace
    THEN TrimRight(SubSeq(s, 1, Len(s) - 1))
    ELSE s
Trim(s) == TrimRight(TrimLeft(s))

\* String.prototype.split on a set of one-character separators: the pieces
\* between separators, in order
RECURSIVE SplitOn(_, _, _)
SplitOn(s, seps, cur) ==
    IF s = <<>> THEN <<cur>>
    ELSE IF Head(s) \in seps THEN <<cur>> \o SplitOn(Tail(s), seps, <<>>)
    ELSE SplitOn(Tail(s), seps, Append(cur, Head(s)))

\* .map((s) => s.trim())
TrimAll(pieces) == [k \in 1..Len(pieces) |-> Trim(pieces[k])]

splitRow(raw) == TrimAll(SplitOn(raw, Separators, <<>>))

\* Array.prototype.findIndex for "the element includes sub": the 0-based
\* index of the first such element, -1 when there is none
FindIncludes(seq, sub) == MinOf({k \in 1..Len(seq) : Includes(seq[k], sub)}) - 1

-----------------------------------------------------------------------------
(* Number(string): the decimal literals [+-]?digits[.digits] and [+-]?.digits *)
(* convert to their value, the empty (or all-blank) string converts to 0,  *)
(* undefined and every other text to NaN.  Literals carry at most three    *)
(* fractional digits.                                                      *)

RECURSIVE DigitsValue(_)
DigitsValue(s) ==
    IF s = <<>> THEN 0 ELSE 10 * DigitsValue(SubSeq(s, 1, Len(s) - 1)) + DigitVal(s[Len(s)])

AllDigits(s) == \A k \in 1..Len(s) : IsDigit(s[k])

\* the fraction digits as thousandths: "5" -> 500, "85" -> 850, "847" -> 847
FractionValue(s) == DigitsValue(SubSeq(s \o <<"0", "0", "0">>, 1, 3))

DecimalValue(int, frac) ==
    IF AllDigits(int) /\ AllDigits(frac) /\ Len(int) + Len(frac) > 0
    THEN Num(1000 * DigitsValue(int) + FractionValue(frac))
    ELSE NaN

\* s with its decimal point at 1-based position dot (0: no point)
DecimalAt(s, dot) ==
    IF dot = 0 THEN DecimalValue(s, <<>>)
    ELSE DecimalValue(SubSeq(s, 1, dot - 1), SubSeq(s, dot + 1, Len(s)))

UnsignedNumber(s) == DecimalAt(s, PosIn(s, "."))

Negate(n) == IF IsFinite(n) THEN Num(0 - n.v) ELSE NaN

SignedNumber(s) ==
    IF s = <<>> THEN Num(0)
    ELSE IF Head(s) = "-" THEN Negate(UnsignedNumber(Tail(s)))
    ELSE UnsignedNumber(IF Head(s) = "+" THEN Tail(s) ELSE s)

Number(cell) == IF cell = UndefCell THEN NaN ELSE SignedNumber(Trim(cell))

-----------------------------------------------------------------------------
(* CSV helpers of the sentiment-snapshot route *)

\* csv.trim().split("\n").filter((l) => l.trim().length > 0)
NonBlankLines(body) == SelectSeq(body, LAMBDA l : Trim(l) # <<>>)

\* "no row": splitRow never returns an empty array
NoRow == <<>>

\* parts.some((p) => Number.isFinite(Number(p)))
HasFiniteCell(parts) == \E k \in 1..Len(parts) : IsFinite(Number(parts[k]))

\* the 1-based positions lastDataRow visits: every line but the first
DataPositions(lines) == 2..Len(lines)

RowAt(lines, i) == IF i = 0 THEN NoRow ELSE splitRow(lines[i])

lastDataRow(lines) ==
    RowAt(lines, MaxOf({i \in DataPositions(lines) : HasFiniteCell(splitRow(lines[i]))}))

\* the cell at 1-based position k as a number, null for k = 0
NumberAtPos(row, k) == IF k = 0 THEN Null ELSE Number(row[k])

\* parseTwoColLatest: the last cell of the row that is a finite number
LastFinite(row) ==
    IF row = NoRow THEN Null
    ELSE NumberAtPos(row, MaxOf({k \in 1..Len(row) : IsFinite(Number(row[k]))}))

TwoColOf(lines) == IF Len(lines) < 2 THEN Null ELSE LastFinite(lastDataRow(lines))

parseTwoColLatest(body) == TwoColOf(NonBlankLines(body))

CloseColumn == 4

CloseOf(row) == IF row = NoRow THEN Null ELSE FiniteOrNull(Number(At(row, CloseColumn)))

StooqOf(lines) == IF Len(lines) < 2 THEN Null ELSE CloseOf(lastDataRow(lines))

parseStooqVIX(body) == StooqOf(NonBlankLines(body))

AdjCloseColumn == 5

\* for (const idx of [4, 5])
YahooCloseOf(row) ==
    IF row = NoRow THEN Null
    ELSE Coalesce(FiniteOrNull(Number(At(row, CloseColumn))),
                  FiniteOrNull(Number(At(row, AdjCloseColumn))))

YahooOf(lines) == IF Len(lines) < 2 THEN Null ELSE YahooCloseOf(lastDataRow(lines))

parseYahooLatestClose(body) == YahooOf(NonBlankLines(body))

Bull == <<"b", "u", "l", "l">>
Bear == <<"b", "e", "a", "r">>

\* splitRow(lines[0]).map((h) => h.toLowerCase())
LowerAll(cells) == [k \in 1..Len(cells) |-> ToLowerCase(cells[k])]
HeaderOf(lines) == LowerAll(splitRow(lines[1]))

\* the record parseAAII builds from the cells of the row at bullIdx and bearIdx
AAIIRecord(row, bullIdx, bearIdx) ==
    [t |-> "aaii",
     bull |-> FiniteOrNull(Number(At(row, bullIdx))),
     bear |-> FiniteOrNull(Number(At(row, bearIdx)))]

AAIIFrom(row, bullIdx, bearIdx) ==
    IF bullIdx = -1 \/ bearIdx = -1 THEN Null
    ELSE IF row = NoRow THEN Null
    ELSE AAIIRecord(row, bullIdx, bearIdx)

AAIIWith(lines, header) ==
    AAIIFrom(lastDataRow(lines), FindIncludes(header, Bull), FindIncludes(header, Bear))

AAIIOf(lines) == IF Len(lines) < 2 THEN Null ELSE AAIIWith(lines, HeaderOf(lines))

parseAAII(body) == AAIIOf(NonBlankLines(body))

HintTotal == <<"t", "o", "t", "a", "l">>
HintAll == <<"a", "l", "l">>
HintEquity == <<"e", "q", "u", "i", "t", "y">>
HintIndex == <<"i", "n", "d", "e", "x">>
HintTotalVerbatim == <<"t", "o", "t", "a", "l", " ", "p", "u", "t", "/", "c", "a", "l", "l", " ", "r", "a", "t", "i", "o">>
HintRatioTotal == <<"p", "u", "t", "/", "c", "a", "l", "l", " ", "r", "a", "t", "i", "o", " ", "t", "o", "t", "a", "l">>

\* the candidates table of parseCboePCR
candidates ==
    << <<HintTotal, HintAll>>, <<HintEquity>>, <<HintIndex>>,
       <<HintTotalVerbatim>>, <<HintRatioTotal>> >>

\* pick, one key: the row's cell in the first header column that includes k
\* (no such column: row[-1], which is undefined)
PickValue(header, row, k) == Number(At(row, FindIncludes(header, k)))

PickAt(header, row, keys, j) == IF j = 0 THEN Null ELSE PickValue(header, row, keys[j])

\* the value of the first key whose column holds a finite number
pick(header, row, keys) ==
    PickAt(header, row, keys,
           MinOf({j \in 1..Len(keys) : IsFinite(PickValue(header, row, keys[j]))}))

\* if (Number.isFinite(x)) out.field = x
SetIfFinite(x) == IF IsFinite(x) THEN x ELSE Undefined

RatioMax == 5000

\* n > 0 && n < 5
InRatioRange(n) == n.v > 0 /\ n.v < RatioMax

\* the "best numeric guess": the last cell of the row that is a finite number
\* in (0, 5)
BestGuess(row) ==
    NumberAtPos(row, MaxOf({k \in 1..Len(row) :
                               IsFinite(Number(row[k])) /\ InRatioRange(Number(row[k]))}))

\* out after the header picks and, if (!out.total && !out.equity && !out.index),
\* after the guess
PcrOut(total, equity, index, guess) ==
    [t |-> "pcr",
     total |-> IF ~Truthy(total) /\ ~Truthy(equity) /\ ~Truthy(index) /\ IsFinite(guess)
               THEN guess ELSE total,
     equity |-> equity,
     index |-> index]

\* Object.keys(out).length ? out : null
NullIfEmpty(out) ==
    IF out.total = Undefined /\ out.equity = Undefined /\ out.index = Undefined
    THEN Null ELSE out

PcrFrom(header, row) ==
    IF row = NoRow THEN Null
    ELSE NullIfEmpty(PcrOut(
            SetIfFinite(Coalesce(Coalesce(pick(header, row, candidates[1]),
                                          pick(header, row, candidates[4])),
                                 pick(header, row, candidates[5]))),
            SetIfFinite(pick(header, row, candidates[2])),
            SetIfFinite(pick(header, row, candidates[3])),
            BestGuess(row)))

PcrOf(lines) == IF Len(lines) < 2 THEN Null ELSE PcrFrom(HeaderOf(lines), lastDataRow(lines))

parseCboePCR(body) == PcrOf(NonBlankLines(body))

-----------------------------------------------------------------------------
(* Upstream text: the lines the sources are allowed to answer with *)

\* ""
Blank == <<>>
\* "Date,Open,High,Low,Close,Volume"
HdrOHLC == <<"D", "a", "t", "e", ",", "O", "p", "e", "n", ",", "H", "i", "g", "h", ",", "L", "o", "w", ",", "C", "l", "o", "s", "e", ",", "V", "o", "l", "u", "m", "e">>
\* "Date,Open,High,Low,Close,Adj Close,Volume"
HdrYahoo == <<"D", "a", "t", "e", ",", "O", "p", "e", "n", ",", "H", "i", "g", "h", ",", "L", "o", "w", ",", "C", "l", "o", "s", "e", ",", "A", "d", "j", " ", "C", "l", "o", "s", "e", ",", "V", "o", "l", "u", "m", "e">>
\* "2024-01-02,13.2,13.5,13.1,13.3,100"
RowOld == <<"2", "0", "2", "4", "-", "0", "1", "-", "0", "2", ",", "1", "3", ".", "2", ",", "1", "3", ".", "5", ",", "1", "3", ".", "1", ",", "1", "3", ".", "3", ",", "1", "0", "0">>
\* "2024-01-03,14.1,14.4,14,22.5,90"
RowNew == <<"2", "0", "2", "4", "-", "0", "1", "-", "0", "3", ",", "1", "4", ".", "1", ",", "1", "4", ".", "4", ",", "1", "4", ",", "2", "2", ".", "5", ",", "9", "0">>
\* "2024-01-04,,,,,"
RowEmptyCells == <<"2", "0", "2", "4", "-", "0", "1", "-", "0", "4", ",", ",", ",", ",", ",">>
\* "2024-01-05,N/D,N/D,N/D,N/D,7"
RowNoClose == <<"2", "0", "2", "4", "-", "0", "1", "-", "0", "5", ",", "N", "/", "D", ",", "N", "/", "D", ",", "N", "/", "D", ",", "N", "/", "D", ",", "7">>
\* "2024-01-05,N/D,N/D,N/D,N/D,21.75,7"
RowAdjOnly == <<"2", "0", "2", "4", "-", "0", "1", "-", "0", "5", ",", "N", "/", "D", ",", "N", "/", "D", ",", "N", "/", "D", ",", "N", "/", "D", ",", "2", "1", ".", "7", "5", ",", "7">>
\* "end of data"
RowText == <<"e", "n", "d", " ", "o", "f", " ", "d", "a", "t", "a">>
\* "DATE,CALLS,PUTS,TOTAL,P/C Ratio"
HdrPcr == <<"D", "A", "T", "E", ",", "C", "A", "L", "L", "S", ",", "P", "U", "T", "S", ",", "T", "O", "T", "A", "L", ",", "P", "/", "C", " ", "R", "a", "t", "i", "o">>
\* "Date;Total;Index;Equity"
HdrPcrNew == <<"D", "a", "t", "e", ";", "T", "o", "t", "a", "l", ";", "I", "n", "d", "e", "x", ";", "E", "q", "u", "i", "t", "y">>
\* "Date,Ratio"
HdrPlain == <<"D", "a", "t", "e", ",", "R", "a", "t", "i", "o">>
\* "2024-01-02;0.85;1.2;0.6"
PcrGood == <<"2", "0", "2", "4", "-", "0", "1", "-", "0", "2", ";", "0", ".", "8", "5", ";", "1", ".", "2", ";", "0", ".", "6">>
\* "2024-01-02;7.5;1.2;0.6"
PcrTotalHigh == <<"2", "0", "2", "4", "-", "0", "1", "-", "0", "2", ";", "7", ".", "5", ";", "1", ".", "2", ";", "0", ".", "6">>
\* "2024-01-02;7.5;9;8"
PcrAllHigh == <<"2", "0", "2", "4", "-", "0", "1", "-", "0", "2", ";", "7", ".", "5", ";", "9", ";", "8">>
\* "2024-01-02;;1.2;"
PcrTotalEmpty == <<"2", "0", "2", "4", "-", "0", "1", "-", "0", "2", ";", ";", "1", ".", "2", ";">>
\* "2024-01-02,1200,1020,2220,0.847"
PcrVolume == <<"2", "0", "2", "4", "-", "0", "1", "-", "0", "2", ",", "1", "2", "0", "0", ",", "1", "0", "2", "0", ",", "2", "2", "2", "0", ",", "0", ".", "8", "4", "7">>
\* "2024-01-02, 0.91"
TwoColGood == <<"2", "0", "2", "4", "-", "0", "1", "-", "0", "2", ",", " ", "0", ".", "9", "1">>
\* "2024-01-03,7.5"
TwoColHigh == <<"2", "0", "2", "4", "-", "0", "1", "-", "0", "3", ",", "7", ".", "5">>
\* "2024-01-03,-1"
TwoColNeg == <<"2", "0", "2", "4", "-", "0", "1", "-", "0", "3", ",", "-", "1">>
\* "2024-01-03,0.9%"
TwoColPct == <<"2", "0", "2", "4", "-", "0", "1", "-", "0", "3", ",", "0", ".", "9", "%">>
\* "Date,Bullish%,Neutral,BEAR_PCT"
HdrAaii == <<"D", "a", "t", "e", ",", "B", "u", "l", "l", "i", "s", "h", "%", ",", "N", "e", "u", "t", "r", "a", "l", ",", "B", "E", "A", "R", "_", "P", "C", "T">>
\* "Date,Bullish,Neutral"
HdrAaiiNoBear == <<"D", "a", "t", "e", ",", "B", "u", "l", "l", "i", "s", "h", ",", "N", "e", "u", "t", "r", "a", "l">>
\* "2024-01-04,40.1,30,29.9"
AaiiGood == <<"2", "0", "2", "4", "-", "0", "1", "-", "0", "4", ",", "4", "0", ".", "1", ",", "3", "0", ",", "2", "9", ".", "9">>
\* "2024-01-11,41.5,30,n/a"
AaiiBullOnly == <<"2", "0", "2", "4", "-", "0", "1", "-", "1", "1", ",", "4", "1", ".", "5", ",", "3", "0", ",", "n", "/", "a">>
\* "2024-01-11,n/a,30,28.5"
AaiiBearOnly == <<"2", "0", "2", "4", "-", "0", "1", "-", "1", "1", ",", "n", "/", "a", ",", "3", "0", ",", "2", "8", ".", "5">>
\* "2024-01-25,,,"
AaiiEmptyCells == <<"2", "0", "2", "4", "-", "0", "1", "-", "2", "5", ",", ",", ",">>
\* "2024-01-18,n/a,31,n/a"
AaiiNeither == <<"2", "0", "2", "4", "-", "0", "1", "-", "1", "8", ",", "n", "/", "a", ",", "3", "1", ",", "n", "/", "a">>

MaxRows == 2

\* every sequence of at most n lines drawn from pool
RECURSIVE RowsUpTo(_, _)
RowsUpTo(pool, n) ==
    IF n = 0 THEN {<<>>}
    ELSE {<<>>} \cup {<<l>> \o r : l \in pool, r \in RowsUpTo(pool, n - 1)}

\* the bodies with one of the headers followed by at most MaxRows pool lines
Bodies(headers, pool) == {<<h>> \o r : h \in headers, r \in RowsUpTo(pool, MaxRows)}

OhlcLines == {RowOld, RowNew, RowEmptyCells, RowNoClose, RowText, Blank}
StooqBodies == Bodies({HdrOHLC}, OhlcLines) \cup {<<>>}
YahooBodies == Bodies({HdrYahoo}, {RowOld, RowAdjOnly, RowNoClose, RowText}) \cup {<<>>}
PcrLines == {PcrGood, PcrTotalHigh, PcrAllHigh, PcrTotalEmpty, PcrVolume, RowText}
PcrBodies == Bodies({HdrPcr, HdrPcrNew, HdrPlain}, PcrLines)
TwoColLines == {TwoColGood, TwoColHigh, TwoColNeg, TwoColPct, RowText, Blank}
TwoColBodies == Bodies({HdrPlain}, TwoColLines)
AaiiLines == {AaiiGood, AaiiBullOnly, AaiiBearOnly, AaiiNeither, AaiiEmptyCells, RowText}
AaiiBodies == Bodies({HdrAaii, HdrAaiiNoBear}, AaiiLines)

\* other headings of the same table: columns moved, a second bull column, none
\* "Week,bear,n,bull"
HdrAaiiMoved ==
    <<"W", "e", "e", "k", ",", "b", "e", "a", "r", ",", "n", ",", "b", "u", "l", "l">>
\* "date,BULL_PCT,Bull 8wk,Bearish"
HdrAaiiTwoBull ==
    <<"d", "a", "t", "e", ",", "B", "U", "L", "L", "_", "P", "C", "T", ",", "B", "u", "l", "l",
      " ", "8", "w", "k", ",", "B", "e", "a", "r", "i", "s", "h">>
\* "Date,Up,Neutral,Bearish"
HdrAaiiNoBull ==
    <<"D", "a", "t", "e", ",", "U", "p", ",", "N", "e", "u", "t", "r", "a", "l", ",", "B", "e",
      "a", "r", "i", "s", "h">>
\* a put/call table whose total is a plain zero
\* "Date,Total,Ratio"
HdrTotalRatio ==
    <<"D", "a", "t", "e", ",", "T", "o", "t", "a", "l", ",", "R", "a", "t", "i", "o">>
\* "2024-01-02,0,0.9"
PcrZeroTotal ==
    <<"2", "0", "2", "4", "-", "0", "1", "-", "0", "2", ",", "0", ",", "0", ".", "9">>
PcrHintBodies == Bodies({HdrTotalRatio}, {PcrZeroTotal, PcrGood, RowText})

AaiiHeadings == {HdrAaii, HdrAaiiNoBear, HdrAaiiMoved, HdrAaiiTwoBull, HdrAaiiNoBull}
AaiiHeadingBodies == Bodies(AaiiHeadings, AaiiLines)

\* FRED observation values: "22.5", "." (FRED's marker of a missing value), ""
ObsValue == <<"2", "2", ".", "5">>
ObsMissing == <<".">>
ObsEmpty == <<>>

\* a FRED reply: text that is not JSON, JSON without an observations array,
\* or JSON with the observations' value strings, oldest first
FredBodies ==
    {[json |-> FALSE, hasObservations |-> FALSE, observations |-> <<>>],
     [json |-> TRUE, hasObservations |-> FALSE, observations |-> <<>>]}
    \cup {[json |-> TRUE, hasObservations |-> TRUE, observations |-> o] :
              o \in RowsUpTo({ObsValue, ObsMissing, ObsEmpty}, MaxRows)}

-----------------------------------------------------------------------------
(* The source chains of the sentiment-snapshot route *)

Stooq == "stooq.com ^vix"
Yahoo == "query1.finance.yahoo.com ^VIX"
Fred == "api.stlouisfed.org VIXCLS"
LocalFile == "public/aaii.csv"
PublicHttp == "VERCEL_URL/aaii.csv"

CBOE_CSV_CANDIDATES == <<"cdn.cboe.com pc-ratio.csv">>
CBOE_LEGACY == <<"cdn.cboe.com totalpc.csv", "cdn.cboe.com equitypc.csv">>

Range(seq) == {seq[k] : k \in 1..Len(seq)}

\* the order in which each function's code reaches its sources
SourcesOf(c) ==
    CASE c = "getVIX" -> <<Stooq, Yahoo, Fred>>
      [] c = "getPutCall" -> CBOE_CSV_CANDIDATES \o CBOE_LEGACY
      [] c = "getAAII" -> <<LocalFile, PublicHttp>>

BodiesOf(src) ==
    CASE src = Stooq -> StooqBodies
      [] src = Yahoo -> YahooBodies
      [] src = Fred -> FredBodies
      [] src \in Range(CBOE_CSV_CANDIDATES) -> PcrBodies
      [] src \in Range(CBOE_LEGACY) -> TwoColBodies
      [] OTHER -> AaiiBodies

\* what the body of one attempt leads to: thrown inside the try block, or the
\* value the function would return (Null: nothing accepted, go on)
Thrown == [thrown |-> TRUE, value |-> Null]
Value(v) == [thrown |-> FALSE, value |-> v]

\* getVIX, source 3: the last observation whose value converts to a finite
\* number; r.json() or data.observations.length throws on a malformed reply
FredLatest(data) ==
    IF ~data.json \/ ~data.hasObservations THEN Thrown
    ELSE Value(NumberAtPos(data.observations,
                           MaxOf({k \in 1..Len(data.observations) :
                                     IsFinite(Number(data.observations[k]))})))

\* getPutCall, loop 1: total if usable, else equity
AcceptPcr(p) ==
    IF p = Null THEN Null
    ELSE IF Truthy(p.total) /\ InRatioRange(p.total) THEN p.total
    ELSE IF Truthy(p.equity) /\ InRatioRange(p.equity) THEN p.equity
    ELSE Null

\* loop 2 without its range test
AcceptLegacyUnchecked(n) == FiniteOrNull(n)

\* getPutCall, loop 2
AcceptLegacy(n) == IF IsFinite(n) /\ InRatioRange(n) THEN n ELSE Null

Attempt(src, body) ==
    CASE src = Stooq -> Value(parseStooqVIX(body))
      [] src = Yahoo -> Value(parseYahooLatestClose(body))
      [] src = Fred -> FredLatest(body)
      [] src \in Range(CBOE_CSV_CANDIDATES) -> Value(AcceptPcr(parseCboePCR(body)))
      [] src \in Range(CBOE_LEGACY) -> Value(AcceptLegacy(parseTwoColLatest(body)))
      [] OTHER -> Value(parseAAII(body))

AllSources == Range(SourcesOf("getVIX")) \cup Range(SourcesOf("getPutCall"))
                  \cup Range(SourcesOf("getAAII"))

\* a cell that is the text of a number: not empty, and Number() is finite
IsNumeral(cell) == Trim(cell) # <<>> /\ IsFinite(Number(cell))

\* what was delivered holds no numeral below its first line: a CSV with no
\* number in any data row, a FRED reply that is malformed or has no number
\* among its observation values
NoNumerals(src, body) ==
    IF src = Fred
    THEN \/ ~body.json
         \/ ~body.hasObservations
         \/ \A k \in 1..Len(body.observations) : ~IsNumeral(body.observations[k])
    ELSE \A i \in 2..Len(body) :
            \A k \in 1..Len(splitRow(body[i])) : ~IsNumeral(splitRow(body[i])[k])

\* Attempt, tabulated once over the bodies each source can answer with, each
\* with the note whether the body held any numeral
Outcome ==
    [src \in AllSources |->
        [body \in BodiesOf(src) |->
            [r |-> Attempt(src, body), empty |-> NoNumerals(src, body)]]]

-----------------------------------------------------------------------------
(* GET of the sentiment-snapshot route.  The handler runs from one await   *)
(* to the next in one step; a frame is the handler's state at an await.    *)

NoResponse == [status |-> 0]
Rejected == [status |-> -1]

Frame ==
    [pc |-> pc, idx |-> idx, net |-> net, timer |-> timer, log |-> log,
     failures |-> failures, vix |-> vix, putCall |-> putCall, aaii |-> aaii, stale |-> stale, response |-> response]

Become(f) ==
    /\ pc' = f.pc
    /\ idx' = f.idx
    /\ net' = f.net
    /\ timer' = f.timer
    /\ log' = f.log
    /\ failures' = f.failures
    /\ vix' = f.vix
    /\ putCall' = f.putCall
    /\ aaii' = f.aaii
    /\ stale' = f.stale
    /\ response' = f.response

sources ==
    <<"Stooq (^VIX daily CSV) + Yahoo fallback + FRED VIXCLS (if FRED_API_KEY)",
      "CBOE daily put/call CSV (pc-ratio.csv, mirrors) + legacy totalpc.csv/equitypc.csv",
      "AAII (public CSV)">>

\* !aaii || (aaii.bull == null && aaii.bear == null)
AaiiMissing(a) == a = Null \/ (IsNullish(a.bull) /\ IsNullish(a.bear))

\* allFailed with || in place of &&
anyFailed(f) == IsNullish(f.vix) \/ IsNullish(f.putCall) \/ AaiiMissing(f.aaii)

allFailed(f) == IsNullish(f.vix) /\ IsNullish(f.putCall) /\ AaiiMissing(f.aaii)

\* the body object GET builds: the error key only by the conditional spread
Snapshot(f) ==
    IF allFailed(f)
    THEN [vix |-> f.vix, putCall |-> f.putCall, aaii |-> f.aaii, fearGreed |-> Null,
          stale |-> f.stale, sources |-> sources, updated |-> "toISOString()",
          error |-> "All sources unavailable right now."]
    ELSE [vix |-> f.vix, putCall |-> f.putCall, aaii |-> f.aaii, fearGreed |-> Null,
          stale |-> f.stale, sources |-> sources, updated |-> "toISOString()"]

\* return NextResponse.json(body, { status: 200 })
Respond(f) ==
    [f EXCEPT !.pc = "done", !.idx = 0, !.net = "idle",
              !.response = [status |-> 200, body |-> Snapshot(f)]]

\* a chain that, after a failure, goes back to the source that just failed
SameIndex(i) == i

\* the index of the attempt that follows attempt i of a chain
NextIndex(i) == i + 1

\* fetchText / fetchJSON that arm no timer
SetNoTimeout(timers, src) == timers

\* a finally block that leaves the timer armed
KeepTimeout(timers, src) == timers

\* the timer fetchText / fetchJSON arm at entry, and the finally block
SetTimeout(timers, src) == IF src = LocalFile THEN timers ELSE timers \cup {src}
ClearTimeout(timers, src) == timers \ {src}

\* the fate of the attempt in flight, written on its log entry
Mark(lg, st, empty) == [lg EXCEPT ![Len(lg)].st = st, ![Len(lg)].empty = empty]

\* getVIX asks FRED only if (key)
Configured(src) == src # Fred \/ fredKey

\* the frame once the fetch (or file read) of src is issued and awaited
Issue(f, c, i, src) ==
    [f EXCEPT !.pc = c, !.idx = i,
              !.net = IF src = LocalFile THEN "reading" ELSE "sent",
              !.timer = SetTimeout(@, src),
              !.log = Append(@, [chain |-> c, src |-> src, st |-> "pending",
                                 empty |-> FALSE])]

\* if (vix == null) stale = true, and likewise for putCall and aaii
StaleAfter(c, old, v) == old \/ (IF c = "getAAII" THEN AaiiMissing(v) ELSE IsNullish(v))

\* a handler that drops the put/call value whenever the VIX chain gave none
AssignCoupled(f, c, v) ==
    CASE c = "getVIX" -> [f EXCEPT !.vix = v, !.stale = StaleAfter(c, @, v)]
      [] c = "getPutCall" ->
            [f EXCEPT !.putCall = IF IsNullish(f.vix) THEN Null ELSE v,
                      !.stale = StaleAfter(c, @, IF IsNullish(f.vix) THEN Null ELSE v)]
      [] c = "getAAII" -> [f EXCEPT !.aaii = v, !.stale = StaleAfter(c, @, v)]

\* GET's locals once chain c returned v
Assign(f, c, v) ==
    CASE c = "getVIX" -> [f EXCEPT !.vix = v, !.stale = StaleAfter(c, @, v)]
      [] c = "getPutCall" -> [f EXCEPT !.putCall = v, !.stale = StaleAfter(c, @, v)]
      [] c = "getAAII" -> [f EXCEPT !.aaii = v, !.stale = StaleAfter(c, @, v)]

\* the function GET awaits after c
Following(c) ==
    CASE c = "getVIX" -> "getPutCall"
      [] c = "getPutCall" -> "getAAII"
      [] c = "getAAII" -> "respond"

\* the handler runs on from (chain c, source i) to its next await, or to its
\* response: sources that are not configured are passed over, a chain that ran
\* out of sources returns null to GET
RECURSIVE RunFrom(_, _, _)
RunFrom(f, c, i) ==
    IF c = "respond" THEN Respond(f)
    ELSE IF i > Len(SourcesOf(c)) THEN RunFrom(Assign(f, c, Null), Following(c), 1)
    ELSE IF ~Configured(SourcesOf(c)[i]) THEN RunFrom(f, c, NextIndex(i))
    ELSE Issue(f, c, i, SourcesOf(c)[i])

\* chain c returned v to GET
ChainReturns(f, c, v) == RunFrom(Assign(f, c, v), Following(c), 1)

\* getAAII without its try blocks
CatchesInCsvChainsOnly(c) == c \in {"getVIX", "getPutCall"}

\* is an exception thrown while attempting a source of c caught in c
Catches(c) == c \in {"getVIX", "getPutCall", "getAAII"}

\* the frame with the attempt in flight settled: finally { clearTimeout(t) }
Settled(f, st, why, empty) ==
    [f EXCEPT !.timer = ClearTimeout(@, SourcesOf(f.pc)[f.idx]),
              !.log = Mark(@, st, empty),
              !.failures = IF st = "failed" THEN @ \cup {why} ELSE @]

\* an uncaught exception rejects GET's promise
Reject(f) == [f EXCEPT !.pc = "rejected", !.idx = 0, !.net = "idle", !.response = Rejected]

\* the attempt in flight ended by an exception, g the settled frame
Caught(g) == IF Catches(g.pc) THEN RunFrom(g, g.pc, NextIndex(g.idx)) ELSE Reject(g)

Throws(f, why) == Caught(Settled(f, "failed", why, FALSE))

\* the attempt in flight read its body, r what the body leads to
Continue(f, r, empty) ==
    IF r.thrown THEN Throws(f, "malformed")
    ELSE IF r.value = Null
         THEN RunFrom(Settled(f, "failed", "no value", FALSE), f.pc, NextIndex(f.idx))
    ELSE ChainReturns(Settled(f, "accepted", "", empty), f.pc, r.value)

ContinueWith(f, o) == Continue(f, o.r, o.empty)

Reads(f, body) == ContinueWith(f, Outcome[SourcesOf(f.pc)[f.idx]][body])

InFlight == pc \in {"getVIX", "getPutCall", "getAAII"}
Current == SourcesOf(pc)[idx]

NoResult == [done |-> FALSE, fn |-> "", value |-> Null]

Init ==
    /\ pc = "idle"
    /\ idx = 0
    /\ net = "idle"
    /\ timer = {}
    /\ log = <<>>
    /\ failures = {}
    /\ vix = Null
    /\ putCall = Null
    /\ aaii = Null
    /\ stale = FALSE
    /\ response = NoResponse
    /\ fredKey \in BOOLEAN
    /\ csv = <<>>
    /\ got = NoResult

\* a request reaches the route
GET ==
    /\ pc = "idle"
    /\ Become(RunFrom(Frame, "getVIX", 1))
    /\ UNCHANGED <<fredKey, csv, got>>

\* fetch() rejects: network error, unresolvable or invalid URL
FetchRejects ==
    /\ InFlight
    /\ net = "sent"
    /\ Become(Throws(Frame, "network"))
    /\ UNCHANGED <<fredKey, csv, got>>

\* the response headers arrive with an ok status
FetchResolves ==
    /\ InFlight
    /\ net = "sent"
    /\ net' = "reading"
    /\ UNCHANGED <<pc, idx, timer, log, failures, vix, putCall, aaii, stale, response, fredKey, csv, got>>

\* the response headers arrive with a status that is not ok
FetchNotOk ==
    /\ InFlight
    /\ net = "sent"
    /\ Become(Throws(Frame, "status"))
    /\ UNCHANGED <<fredKey, csv, got>>

\* the timer of the attempt fires: ctrl.abort() rejects the pending fetch or
\* body read
TimerFires ==
    /\ InFlight
    /\ Current \in timer
    /\ Become(Throws(Frame, "timeout"))
    /\ UNCHANGED <<fredKey, csv, got>>

\* r.text() / r.json() / fs.readFile rejects
ReadRejects ==
    /\ InFlight
    /\ net = "reading"
    /\ Become(Throws(Frame, "read"))
    /\ UNCHANGED <<fredKey, csv, got>>

\* r.text() / r.json() / fs.readFile resolves
ReadResolves ==
    /\ InFlight
    /\ net = "reading"
    /\ \E body \in BodiesOf(Current) : Become(Reads(Frame, body))
    /\ UNCHANGED <<fredKey, csv, got>>

Next ==
    \/ GET
    \/ FetchRejects
    \/ FetchResolves
    \/ FetchNotOk
    \/ TimerFires
    \/ ReadRejects
    \/ ReadResolves

Spec == Init /\ [][Next]_vars

\* the same handler on a runtime whose armed timers do fire: the callback of
\* setTimeout(() => ctrl.abort(), timeoutMs) runs unless clearTimeout came first
SpecTimed == Init /\ [][Next]_vars /\ WF_vars(TimerFires)

-----------------------------------------------------------------------------
(* The parsers of the sentiment-snapshot route, each applied to one text *)

ParserInputs ==
    StooqBodies \cup YahooBodies \cup PcrBodies \cup PcrHintBodies \cup TwoColBodies
        \cup AaiiHeadingBodies

Result(fn, value) == [done |-> TRUE, fn |-> fn, value |-> value]

InitParse ==
    /\ pc = "parse"
    /\ idx = 0
    /\ net = "idle"
    /\ timer = {}
    /\ log = <<>>
    /\ failures = {}
    /\ vix = Null
    /\ putCall = Null
    /\ aaii = Null
    /\ stale = FALSE
    /\ response = NoResponse
    /\ fredKey = FALSE
    /\ csv \in ParserInputs
    /\ got = NoResult

Handler == <<pc, idx, net, timer, log, failures, vix, putCall, aaii, stale, response, fredKey>>

CallStooq ==
    /\ ~got.done
    /\ got' = Result("parseStooqVIX", parseStooqVIX(csv))
    /\ UNCHANGED <<Handler, csv>>

CallYahoo ==
    /\ ~got.done
    /\ got' = Result("parseYahooLatestClose", parseYahooLatestClose(csv))
    /\ UNCHANGED <<Handler, csv>>

CallAAII ==
    /\ ~got.done
    /\ got' = Result("parseAAII", parseAAII(csv))
    /\ UNCHANGED <<Handler, csv>>

CallCboePCR ==
    /\ ~got.done
    /\ got' = Result("parseCboePCR", parseCboePCR(csv))
    /\ UNCHANGED <<Handler, csv>>

CallTwoColLatest ==
    /\ ~got.done
    /\ got' = Result("parseTwoColLatest", parseTwoColLatest(csv))
    /\ UNCHANGED <<Handler, csv>>

NextParse == CallStooq \/ CallYahoo \/ CallAAII \/ CallCboePCR \/ CallTwoColLatest

SpecParse == InitParse /\ [][NextParse]_vars

-----------------------------------------------------------------------------
(* The /api/pcr route: fetchFromCandidates and GET *)

\* "2024-01-04,12.5"
TwoColBig == <<"2", "0", "2", "4", "-", "0", "1", "-", "0", "4", ",", "1", "2", ".", "5">>

PcrRouteLines == {TwoColGood, TwoColHigh, TwoColNeg, TwoColPct, TwoColBig, PcrVolume, RowText, Blank}
PcrRouteBodies == Bodies({HdrPlain}, PcrRouteLines) \cup {<<>>}

PCR_CANDIDATES ==
    <<"cdn.cboe.com daily_total_pcr.csv", "cdn.cboe.com total_pcr.csv",
      "cdn.cboe.com total_pc.csv">>

\* text.trim().split(/\r?\n/).filter(Boolean)
NonEmptyLines(body) == SelectSeq(body, LAMBDA l : l # <<>>)

\* String(maybeVal).replace(/[^\d.\-]/g, "")
StripNonNumeric(cell) == SelectSeq(cell, LAMBDA c : IsDigit(c) \/ c \in {".", "-"})

\* Number(num.toFixed(2)) of a positive number: the nearest hundredth
ToFixed2(n) == Num(((n.v + 5) \div 10) * 10)

PcrLimit == 10000

\* isFinite(num) && num > 0 && num < 10
PlausiblePcr(n) == IsFinite(n) /\ n.v > 0 /\ n.v < PcrLimit

\* the number read from the last cell of a row
LastCellNumber(row) == Number(StripNonNumeric(row[Len(row)]))

\* a row the scan returns on: at least two cells, the last one plausible
Qualifies(row) == Len(row) >= 2 /\ PlausiblePcr(LastCellNumber(row))

NoPcr == [pcr |-> Null]

FromRow(row) == [pcr |-> ToFixed2(LastCellNumber(row)), asOf |-> row[1]]

FromLine(lines, i) == IF i = 0 THEN NoPcr ELSE FromRow(splitRow(lines[i]))

\* for (let i = lines.length - 1; i >= 0; i--): the last line that qualifies
ScanLines(lines) == FromLine(lines, MaxOf({i \in 1..Len(lines) : Qualifies(splitRow(lines[i]))}))

ScanBody(body) == ScanLines(NonEmptyLines(body))

\* the scan, tabulated once over the bodies a candidate can answer with
PcrOutcome == [body \in PcrRouteBodies |-> ScanBody(body)]

\* Response.json({ ...data, stale: data.pcr == null })
PcrJson(data) ==
    IF "asOf" \in DOMAIN data
    THEN [pcr |-> data.pcr, asOf |-> data.asOf, stale |-> IsNullish(data.pcr)]
    ELSE [pcr |-> data.pcr, stale |-> IsNullish(data.pcr)]

PcrRespond(f, data) ==
    [f EXCEPT !.pc = "done", !.idx = 0, !.net = "idle",
              !.response = [status |-> 200, body |-> PcrJson(data)]]

\* fetchFromCandidates reaches candidate i, or has run out of candidates
PcrRunFrom(f, i) ==
    IF i > Len(PCR_CANDIDATES) THEN PcrRespond(f, NoPcr)
    ELSE [f EXCEPT !.pc = "fetchFromCandidates", !.idx = i, !.net = "sent",
                   !.log = Append(@, [chain |-> "fetchFromCandidates",
                                      src |-> PCR_CANDIDATES[i], st |-> "pending",
                                      empty |-> FALSE])]

PcrSettled(f, st, why) ==
    [f EXCEPT !.log = Mark(@, st, FALSE),
              !.failures = IF st = "failed" THEN @ \cup {why} ELSE @]

\* if (!res.ok) continue, the catch block, and a scan that returned nothing
PcrNext(f, why) == PcrRunFrom(PcrSettled(f, "failed", why), NextIndex(f.idx))

PcrContinue(f, data) ==
    IF data = NoPcr THEN PcrNext(f, "no value")
    ELSE PcrRespond(PcrSettled(f, "accepted", ""), data)

PcrReads(f, body) == PcrContinue(f, PcrOutcome[body])

InitPcr ==
    /\ pc = "idle"
    /\ idx = 0
    /\ net = "idle"
    /\ timer = {}
    /\ log = <<>>
    /\ failures = {}
    /\ vix = Null
    /\ putCall = Null
    /\ aaii = Null
    /\ stale = FALSE
    /\ response = NoResponse
    /\ fredKey = FALSE
    /\ csv = <<>>
    /\ got = NoResult

Others == <<timer, vix, putCall, aaii, stale, fredKey, csv, got>>

PcrApply(f) ==
    /\ pc' = f.pc
    /\ idx' = f.idx
    /\ net' = f.net
    /\ log' = f.log
    /\ failures' = f.failures
    /\ response' = f.response
    /\ UNCHANGED Others

PcrInFlight == pc = "fetchFromCandidates"

\* a request reaches /api/pcr
PcrGET ==
    /\ pc = "idle"
    /\ PcrApply(PcrRunFrom(Frame, 1))

\* fetch() rejects
PcrFetchRejects ==
    /\ PcrInFlight
    /\ net = "sent"
    /\ PcrApply(PcrNext(Frame, "network"))

\* the response headers arrive with a status that is not ok
PcrFetchNotOk ==
    /\ PcrInFlight
    /\ net = "sent"
    /\ PcrApply(PcrNext(Frame, "status"))

\* the response headers arrive with an ok status
PcrFetchResolves ==
    /\ PcrInFlight
    /\ net = "sent"
    /\ net' = "reading"
    /\ UNCHANGED <<pc, idx, log, failures, response, Others>>

\* res.text() rejects
PcrReadRejects ==
    /\ PcrInFlight
    /\ net = "reading"
    /\ PcrApply(PcrNext(Frame, "read"))

\* res.text() resolves
PcrReadResolves ==
    /\ PcrInFlight
    /\ net = "reading"
    /\ \E body \in PcrRouteBodies : PcrApply(PcrReads(Frame, body))

NextPcr ==
    \/ PcrGET
    \/ PcrFetchRejects
    \/ PcrFetchNotOk
    \/ PcrFetchResolves
    \/ PcrReadRejects
    \/ PcrReadResolves

SpecPcr == InitPcr /\ [][NextPcr]_vars

-----------------------------------------------------------------------------
(* The put/call route with CSV and HTML fallbacks (layout.tsx): *)
(* parseLastNumericLine, tryCsv, tryHtml and GET                 *)

csvCandidates ==
    <<"cdn.cboe.com data/put_call_ratio/daily_total_pcr.csv",
      "cdn.cboe.com api/global/us_indices/daily_prices/total_pcr.csv",
      "cdn.cboe.com data/put_call_ratio/total_pc.csv">>
htmlCandidates ==
    <<"www.cboe.com us/options/market_statistics/daily/put_call_ratio/",
      "www.marketwatch.com market-data">>

\* a page that puts the HTML candidates before the CSV candidates
HtmlFirst == htmlCandidates \o csvCandidates

\* the order in which GET's two loops reach the candidates
LayoutCandidates == csvCandidates \o htmlCandidates

\* the function GET calls on candidate i
TryOf(i) == IF i <= Len(csvCandidates) THEN "tryCsv" ELSE "tryHtml"

Str(s) == [t |-> "str", v |-> s]

\* cols[0] || null
OrNull(cell) == IF cell = <<>> THEN Null ELSE Str(cell)

\* the scan of parseLastNumericLine: the same test as in /api/pcr
NoValue == [value |-> Null, date |-> Null]
LineValue(cols) == [value |-> ToFixed2(LastCellNumber(cols)), date |-> OrNull(cols[1])]
ParsedLine(lines, i) == IF i = 0 THEN NoValue ELSE LineValue(splitRow(lines[i]))
LastNumericOf(lines) ==
    ParsedLine(lines, MaxOf({i \in 1..Len(lines) : Qualifies(splitRow(lines[i]))}))
parseLastNumericLine(text) == LastNumericOf(NonEmptyLines(text))

\* what a call of tryCsv / tryHtml ends in once the body is read
Threw(why) == [thrown |-> TRUE, why |-> why]
Returned(out) == [thrown |-> FALSE, out |-> out]

\* if (value == null) throw ...; return { pcr: value, asOf: date ?? null, ... }
CsvResult(url, p) ==
    IF IsNullish(p.value) THEN Threw("no value")
    ELSE Returned([pcr |-> p.value, asOf |-> Coalesce(p.date, Null), source |-> url,
                   stale |-> FALSE])

tryCsv(url, text) == CsvResult(url, parseLastNumericLine(text))

\* the pages an HTML candidate can answer with
\* "<h2>Total Put/Call Ratio</h2><td>0.83</td>"
PageRatio ==
    <<"<", "h", "2", ">", "T", "o", "t", "a", "l", " ", "P", "u", "t", "/", "C", "a", "l", "l",
      " ", "R", "a", "t", "i", "o", "<", "/", "h", "2", ">", "<", "t", "d", ">", "0", ".", "8",
      "3", "<", "/", "t", "d", ">">>
\* "v1.04 <b>put call ratio</b> 7.25"
PageRatioHigh ==
    <<"v", "1", ".", "0", "4", " ", "<", "b", ">", "p", "u", "t", " ", "c", "a", "l", "l", " ",
      "r", "a", "t", "i", "o", "<", "/", "b", ">", " ", "7", ".", "2", "5">>
\* "VIX 13.30 +0.45%"
PageQuotes ==
    <<"V", "I", "X", " ", "1", "3", ".", "3", "0", " ", "+", "0", ".", "4", "5", "%">>
\* "<html>Access denied</html>"
PageDenied ==
    <<"<", "h", "t", "m", "l", ">", "A", "c", "c", "e", "s", "s", " ", "d", "e", "n", "i", "e",
      "d", "<", "/", "h", "t", "m", "l", ">">>
\* "Put/Call <i>ratio</i> 0.97"
PageTagged ==
    <<"P", "u", "t", "/", "C", "a", "l", "l", " ", "<", "i", ">", "r", "a", "t", "i", "o", "<",
      "/", "i", ">", " ", "0", ".", "9", "7">>
\* "put/call ratio 0.00 1.10"
PageZero ==
    <<"p", "u", "t", "/", "c", "a", "l", "l", " ", "r", "a", "t", "i", "o", " ", "0", ".", "0",
      "0", " ", "1", ".", "1", "0">>

HtmlPages == {PageRatio, PageRatioHigh, PageQuotes, PageDenied, PageTagged, PageZero}

PhraseGap == 40
PhraseTail == 200

\* word occurs in s at position k, letter case ignored (the i flag)
WordAt(s, k, word) ==
    k + Len(word) - 1 <= Len(s) /\ ToLowerCase(SubSeq(s, k, k + Len(word) - 1)) = word

\* [^<]{0,40} can cover s[a..b]
NoTagOpen(s, a, b) == b - a + 1 <= PhraseGap /\ \A k \in a..b : s[k] # "<"

WordPut == <<"p", "u", "t">>
WordCall == <<"c", "a", "l", "l">>
WordRatio == <<"r", "a", "t", "i", "o">>

\* where "call" can follow a "put" at p, and "ratio" a "call" at q
CallAfter(s, p) == {q \in (p + 3)..Len(s) : WordAt(s, q, WordCall) /\ NoTagOpen(s, p + 3, q - 1)}
RatioAfter(s, q) == {r \in (q + 4)..Len(s) : WordAt(s, r, WordRatio) /\ NoTagOpen(s, q + 4, r - 1)}

\* /put[^<]{0,40}call[^<]{0,40}ratio[\s\S]{0,200}/i matches from p
PhraseAt(s, p) == WordAt(s, p, WordPut) /\ \E q \in CallAfter(s, p) : RatioAfter(s, q) # {}

\* the match is the leftmost one; its quantifiers are greedy
PhraseStart(s) == MinOf({p \in 1..Len(s) : PhraseAt(s, p)})
GreedyCall(s, p) == MaxOf({q \in CallAfter(s, p) : RatioAfter(s, q) # {}})
EndAfter(s, r) == IF r + 4 + PhraseTail <= Len(s) THEN r + 4 + PhraseTail ELSE Len(s)
PhraseEnd(s, p) == EndAfter(s, MaxOf(RatioAfter(s, GreedyCall(s, p))))

\* html.match(...)?.[0] ?? html
TargetFrom(s, p) == IF p = 0 THEN s ELSE SubSeq(s, p, PhraseEnd(s, p))
target(html) == TargetFrom(html, PhraseStart(html))

\* target.match(/(\d+\.\d{2})/g) || [], as numbers: every run of digits that
\* is followed by a point and two digits, left to right, matches not overlapping
RECURSIVE RunEnd(_, _)
RunEnd(s, i) == IF i < Len(s) /\ IsDigit(s[i + 1]) THEN RunEnd(s, i + 1) ELSE i
TwoDecimalsAfter(s, j) ==
    j + 3 <= Len(s) /\ s[j + 1] = "." /\ IsDigit(s[j + 2]) /\ IsDigit(s[j + 3])
FloatValue(s, i, j) ==
    Num(DigitsValue(SubSeq(s, i, j)) * 1000 + DigitVal(s[j + 2]) * 100 + DigitVal(s[j + 3]) * 10)
RECURSIVE Floats(_, _)
RECURSIVE FloatsFromRun(_, _, _)
Floats(s, i) ==
    IF i > Len(s) THEN <<>>
    ELSE IF ~IsDigit(s[i]) THEN Floats(s, i + 1)
    ELSE FloatsFromRun(s, i, RunEnd(s, i))
FloatsFromRun(s, i, j) ==
    IF TwoDecimalsAfter(s, j) THEN <<FloatValue(s, i, j)>> \o Floats(s, j + 4)
    ELSE Floats(s, j + 1)
matches(t) == Floats(t, 1)

HtmlLimit == 5000

\* isFinite(n) && n > 0 && n < 5
PlausibleHtml(n) == IsFinite(n) /\ n.v > 0 /\ n.v < HtmlLimit

\* Array.prototype.find: the first element that passes, else undefined
ElementAt(ms, k) == IF k = 0 THEN Undefined ELSE ms[k]
FindPlausible(ms) == ElementAt(ms, MinOf({k \in 1..Len(ms) : PlausibleHtml(ms[k])}))

\* if (!num) throw ...; return { pcr: Number(num.toFixed(2)), asOf: null, ... }
HtmlResult(url, num) ==
    IF ~Truthy(num) THEN Threw("no plausible number")
    ELSE Returned([pcr |-> ToFixed2(num), asOf |-> Null, source |-> url, stale |-> FALSE])

tryHtml(url, html) == HtmlResult(url, FindPlausible(matches(target(html))))

\* what candidate url can answer with
LayoutBodies(fn) == IF fn = "tryCsv" THEN PcrRouteBodies ELSE HtmlPages

TryOn(fn, url, body) == IF fn = "tryCsv" THEN tryCsv(url, body) ELSE tryHtml(url, body)

\* tryCsv and tryHtml, tabulated once over candidates and bodies
LayoutOutcome ==
    [i \in 1..Len(LayoutCandidates) |->
        [body \in LayoutBodies(TryOf(i)) |-> TryOn(TryOf(i), LayoutCandidates[i], body)]]

\* const miss = { pcr: null, asOf: null, stale: true }
miss == [pcr |-> Null, asOf |-> Null, stale |-> TRUE]

\* return Response.json(out)
LayoutRespond(f, out) ==
    [f EXCEPT !.pc = "done", !.idx = 0, !.net = "idle",
              !.response = [status |-> 200, body |-> out]]

\* GET reaches candidate i of its loops, or has left both loops
LayoutRunFrom(f, i) ==
    IF i > Len(LayoutCandidates) THEN LayoutRespond(f, miss)
    ELSE [f EXCEPT !.pc = TryOf(i), !.idx = i, !.net = "sent",
                   !.log = Append(@, [chain |-> TryOf(i), src |-> LayoutCandidates[i],
                                      st |-> "pending", empty |-> FALSE])]

\* catch {}: on to the next candidate
LayoutCatch(f, why) == LayoutRunFrom(PcrSettled(f, "failed", why), NextIndex(f.idx))

LayoutContinue(f, r) ==
    IF r.thrown THEN LayoutCatch(f, r.why)
    ELSE LayoutRespond(PcrSettled(f, "accepted", ""), r.out)

LayoutReads(f, body) == LayoutContinue(f, LayoutOutcome[f.idx][body])

LayoutInFlight == pc \in {"tryCsv", "tryHtml"}

\* a request reaches the route
LayoutGET ==
    /\ pc = "idle"
    /\ PcrApply(LayoutRunFrom(Frame, 1))

\* fetch() rejects
LayoutFetchRejects ==
    /\ LayoutInFlight
    /\ net = "sent"
    /\ PcrApply(LayoutCatch(Frame, "network"))

\* if (!r.ok) throw new Error("bad status")
LayoutFetchNotOk ==
    /\ LayoutInFlight
    /\ net = "sent"
    /\ PcrApply(LayoutCatch(Frame, "status"))

\* the response headers arrive with an ok status
LayoutFetchResolves ==
    /\ LayoutInFlight
    /\ net = "sent"
    /\ net' = "reading"
    /\ UNCHANGED <<pc, idx, log, failures, response, Others>>

\* r.text() rejects
LayoutReadRejects ==
    /\ LayoutInFlight
    /\ net = "reading"
    /\ PcrApply(LayoutCatch(Frame, "read"))

\* r.text() resolves
LayoutReadResolves ==
    /\ LayoutInFlight
    /\ net = "reading"
    /\ \E body \in LayoutBodies(pc) : PcrApply(LayoutReads(Frame, body))

NextLayout ==
    \/ LayoutGET
    \/ LayoutFetchRejects
    \/ LayoutFetchNotOk
    \/ LayoutFetchResolves
    \/ LayoutReadRejects
    \/ LayoutReadResolves

SpecLayout == InitPcr /\ [][NextLayout]_vars

-----------------------------------------------------------------------------
(* GET of the earnings-yday route (Alpha Vantage earnings calendar).  A     *)
(* JSON value is a record tagged by its kind: strings carry their           *)
(* characters, objects a function from their keys, arrays a sequence.  A    *)
(* date string is given by the UTC day it denotes, -1 when it denotes none. *)

JNumber(x) == x
JString(chars) == [t |-> "str", v |-> chars]
JDate(day) == [t |-> "date", v |-> day]
JArray(items) == [t |-> "array", v |-> items]
JObject(fields) == [t |-> "object", v |-> fields]

\* json?.key and row.key: undefined on null, undefined and every value
\* that has no such property
Prop(x, key) ==
    IF x.t = "object" THEN IF key \in DOMAIN x.v THEN x.v[key] ELSE Undefined
    ELSE Undefined

\* row.key throws a TypeError on null and undefined
PropThrows(x) == IsNullish(x)

\* truthiness of a JSON value
Truthy2(x) ==
    CASE x.t \in {"null", "undefined", "nan"} -> FALSE
      [] x.t = "num" -> x.v # 0
      [] x.t = "str" -> x.v # <<>>
      [] OTHER -> TRUE

\* a || b
Or(a, b) == IF Truthy2(a) THEN a ELSE b

\* Number(x) of a JSON value: null converts to 0, undefined to NaN
NumberOf(x) ==
    CASE x.t = "num" -> x
      [] x.t = "str" -> Number(x.v)
      [] x.t = "null" -> Num(0)
      [] OTHER -> NaN

toNum(x) == FiniteOrNull(NumberOf(x))

\* the UTC day on which the request is handled
Today == 19732

\* isYday: the date string denotes the UTC day before today
isYday(dateStr) == Truthy2(dateStr) /\ dateStr.t = "date" /\ dateStr.v = Today - 1

\* tagSessionHint on a name that is a string, or nullish
HintBMO == {<<"p", "r", "e">>, <<"b", "e", "f", "o", "r", "e", " ", "o", "p", "e", "n">>, <<"b", "m", "o">>}
HintAMC == {<<"a", "f", "t", "e", "r">>, <<"p", "o", "s", "t">>, <<"a", "m", "c">>}
SessionOf(n) ==
    IF \E h \in HintBMO : Includes(n, h) THEN "BMO"
    ELSE IF \E h \in HintAMC : Includes(n, h) THEN "AMC"
    ELSE "TBD"
tagSessionHint(name) == IF ~Truthy2(name) THEN Null ELSE JString(SessionOf(ToLowerCase(name.v)))

\* name.toLowerCase() throws when a truthy name is not a string
HintThrows(name) == Truthy2(name) /\ name.t # "str"

\* Number(x.toFixed(1)) of a percentage held in thousandths
Abs(n) == IF n < 0 THEN 0 - n ELSE n
ToFixed1(x) == IF x < 0 THEN 0 - (((0 - x) + 50) \div 100) * 100 ELSE ((x + 50) \div 100) * 100

\* (epsAct - epsEst) / Math.abs(epsEst) * 100, to one decimal
SurpriseOf(epsAct, epsEst) ==
    Num(ToFixed1(IF epsAct.v >= epsEst.v
                 THEN ((epsAct.v - epsEst.v) * 100000) \div Abs(epsEst.v)
                 ELSE 0 - (((epsEst.v - epsAct.v) * 100000) \div Abs(epsEst.v))))

surprise(epsAct, epsEst, row) ==
    IF epsAct # Null /\ epsEst # Null /\ epsEst.v # 0 THEN SurpriseOf(epsAct, epsEst)
    ELSE toNum(Prop(row, "surprisePercentage"))

\* one element of mapped
OutItem(row) ==
    [time |-> tagSessionHint(Prop(row, "name")),
     symbol |-> Coalesce(Prop(row, "symbol"), Null),
     companyName |-> Coalesce(Prop(row, "name"), Null),
     epsActual |-> toNum(Prop(row, "epsReported")),
     epsEstimate |-> toNum(Prop(row, "epsEstimated")),
     surprisePct |-> Coalesce(surprise(toNum(Prop(row, "epsReported")),
                                       toNum(Prop(row, "epsEstimated")), row), Null)]

\* row.reportDate ?? row.report_date
ReportDate(row) == Coalesce(Prop(row, "reportDate"), Prop(row, "report_date"))

\* raw: the array under earningsCalendar, else under EarningsCalendar, else
\* json itself if it is an array, else []
ArrayIn(json) ==
    IF Prop(json, "earningsCalendar").t = "array" THEN Prop(json, "earningsCalendar").v
    ELSE IF Prop(json, "EarningsCalendar").t = "array" THEN Prop(json, "EarningsCalendar").v
    ELSE IF json.t = "array" THEN json.v
    ELSE <<>>

\* raw.filter((row) => isYday(...))
FilterYday(raw) == SelectSeq(raw, LAMBDA row : ~PropThrows(row) /\ isYday(ReportDate(row)))

\* the filter or the map throws a TypeError
MappingThrows(raw) ==
    \/ \E k \in 1..Len(raw) : PropThrows(raw[k])
    \/ \E k \in 1..Len(FilterYday(raw)) : HintThrows(Prop(FilterYday(raw)[k], "name"))

MapItems(rows) == [k \in 1..Len(rows) |-> OutItem(rows[k])]

HttpError(status) == JString(<<"HTTP", status>>)

\* json?.Note || json?.Information || json?.["Error Message"] || (r.status !== 200 ? ... : null)
avError(json, status) ==
    Or(Or(Or(Prop(json, "Note"), Prop(json, "Information")), Prop(json, "Error Message")),
       IF status # 200 THEN HttpError(status) ELSE Null)

AlphaVantage == "Alpha Vantage"

\* the body objects the handler serialises
Failure(error) == [items |-> <<>>, stale |-> TRUE, source |-> AlphaVantage, error |-> error]

resp(mapped, err) ==
    IF Truthy2(err)
    THEN [items |-> mapped, stale |-> TRUE, source |-> AlphaVantage, error |-> err]
    ELSE [items |-> mapped, stale |-> Len(mapped) = 0, source |-> AlphaVantage]

\* new Response(JSON.stringify(body), { status: 200, ... })
Ok200(body) == [status |-> 200, body |-> body]

\* a handler without its outer try block: the exception rejects GET
Uncaught(error) == Rejected

\* catch (err): the final safety net
SafetyNet(error) == Ok200(Failure(error))

\* what GET returns once the text of the reply is read
AfterJson(json, status) ==
    IF MappingThrows(ArrayIn(json)) THEN SafetyNet("TypeError")
    ELSE Ok200(resp(MapItems(FilterYday(ArrayIn(json))), avError(json, status)))

\* json = text ? JSON.parse(text) : {}
AfterText(text, status) ==
    IF text.kind = "empty" THEN AfterJson(JObject(<<>>), status)
    ELSE IF text.kind = "invalid" THEN Ok200(Failure(<<"Bad JSON from AV", status>>))
    ELSE AfterJson(text.json, status)

\* the rows Alpha Vantage can send
RowBeat ==
    JObject([k \in {"reportDate", "symbol", "name", "epsReported", "epsEstimated"} |->
        CASE k = "reportDate" -> JDate(Today - 1)
          [] k = "symbol" -> JString(<<"A", "C", "M", "E">>)
          [] k = "name" -> JString(<<"A", "c", "m", "e", " ", "A", "M", "C">>)
          [] k = "epsReported" -> JString(<<"1", ".", "2">>)
          [] k = "epsEstimated" -> JNumber(Num(1000))])
RowSnake ==
    JObject([k \in {"report_date", "name", "epsReported", "surprisePercentage"} |->
        CASE k = "report_date" -> JDate(Today - 1)
          [] k = "name" -> JString(<<"B", "e", "t", "a", " ", "p", "r", "e", "-", "m", "a", "r", "k", "e", "t">>)
          [] k = "epsReported" -> Null
          [] k = "surprisePercentage" -> JString(<<"-", "3", ".", "5">>)])
RowOtherDay ==
    JObject([k \in {"reportDate", "symbol"} |->
        CASE k = "reportDate" -> JDate(Today - 2)
          [] k = "symbol" -> JString(<<"O", "L", "D">>)])
RowBadDate ==
    JObject([k \in {"reportDate", "symbol"} |->
        CASE k = "reportDate" -> JDate(-1)
          [] k = "symbol" -> JString(<<"B", "A", "D">>)])
RowNumericName ==
    JObject([k \in {"reportDate", "name"} |->
        CASE k = "reportDate" -> JDate(Today - 1)
          [] k = "name" -> JNumber(Num(7000))])
RowNull == Null

AvRows == {RowBeat, RowSnake, RowOtherDay, RowBadDate, RowNumericName, RowNull}
AvRowLists == RowsUpTo(AvRows, MaxRows)

Keyed(key, value) == JObject([k \in {key} |-> value])

RateLimited == JString(<<"r", "a", "t", "e", " ", "l", "i", "m", "i", "t">>)

\* the documents a reply can hold
AvDocuments ==
    {Keyed("earningsCalendar", JArray(rows)) : rows \in AvRowLists}
        \cup {Keyed("EarningsCalendar", JArray(rows)) : rows \in AvRowLists}
        \cup {JArray(rows) : rows \in AvRowLists}
        \cup {Keyed("Note", RateLimited), Keyed("Information", RateLimited),
              Keyed("Error Message", RateLimited), Keyed("Note", JString(<<>>)),
              Keyed("earningsCalendar", JString(<<"n", "o">>)), Null, JNumber(Num(5000))}

AvTexts ==
    {[kind |-> "empty"], [kind |-> "invalid"]}
        \cup {[kind |-> "json", json |-> d] : d \in AvDocuments}

AvStatuses == {200, 429, 500}

\* the handler is done with the given Response, or its promise rejected
YdayEnds(r) ==
    /\ pc' = IF r = Rejected THEN "rejected" ELSE "done"
    /\ net' = "idle"
    /\ response' = r

YdayRest == <<idx, timer, log, failures, vix, putCall, aaii, stale, fredKey, got>>

\* a request reaches the route; key is process.env.ALPHA_VANTAGE_KEY
YdayGET ==
    /\ pc = "idle"
    /\ \E key \in BOOLEAN :
          IF ~key
          THEN YdayEnds(Ok200(Failure("Missing ALPHA_VANTAGE_KEY")))
          ELSE pc' = "yday" /\ net' = "sent" /\ UNCHANGED response
    /\ UNCHANGED <<csv, YdayRest>>

\* fetch() rejects
YdayFetchRejects ==
    /\ pc = "yday"
    /\ net = "sent"
    /\ YdayEnds(SafetyNet("fetch failed"))
    /\ UNCHANGED <<csv, YdayRest>>

\* fetch() resolves with r, whatever its status
YdayFetchResolves ==
    /\ pc = "yday"
    /\ net = "sent"
    /\ net' = "reading"
    /\ \E status \in AvStatuses : csv' = [status |-> status]
    /\ UNCHANGED <<pc, response, YdayRest>>

\* r.text() rejects
YdayReadRejects ==
    /\ pc = "yday"
    /\ net = "reading"
    /\ YdayEnds(SafetyNet("read failed"))
    /\ UNCHANGED <<csv, YdayRest>>

\* r.text() resolves
YdayReadResolves ==
    /\ pc = "yday"
    /\ net = "reading"
    /\ \E text \in AvTexts :
          /\ YdayEnds(AfterText(text, csv.status))
          /\ csv' = [status |-> csv.status, text |-> text]
    /\ UNCHANGED YdayRest

NextYday ==
    \/ YdayGET
    \/ YdayFetchRejects
    \/ YdayFetchResolves
    \/ YdayReadRejects
    \/ YdayReadResolves

SpecYday == InitPcr /\ [][NextYday]_vars

-----------------------------------------------------------------------------
(* GET of the Fear & Greed route (alternative.me) *)

\* classify(n), n in thousandths
classify(n) ==
    IF n.v >= 0 /\ n.v <= 25000 THEN "Extreme Fear"
    ELSE IF n.v <= 44000 THEN "Fear"
    ELSE IF n.v <= 55000 THEN "Neutral"
    ELSE IF n.v <= 74000 THEN "Greed"
    ELSE "Extreme Greed"

\* x?.[0]: the first element of an array or character of a string, undefined
\* on every other value
First(x) ==
    IF x.t = "array" /\ x.v # <<>> THEN x.v[1]
    ELSE IF x.t = "str" /\ x.v # <<>> THEN JString(<<x.v[1]>>)
    ELSE Undefined

\* Math.round of a number that is not negative
Round(n) == Num(((n.v + 500) \div 1000) * 1000)

\* isFinite(val) && val >= 0 && val <= 100
InScoreRange(val) == IsFinite(val) /\ val.v >= 0 /\ val.v <= 100000

\* new Date(Number(row.timestamp) * 1000).toUTCString()
UTCString(secs) ==
    IF IsFinite(secs) THEN [t |-> "utc", v |-> secs.v] ELSE JString("Invalid Date")

FngSource == "alternative.me"

\* out, from row = j?.data?.[0] and val = Number(row?.value)
FngOut(row, val) ==
    [score |-> IF InScoreRange(val) THEN Round(val) ELSE Null,
     label |-> IF InScoreRange(val)
               THEN Or(Prop(row, "value_classification"), JString(classify(val)))
               ELSE Null,
     asOf |-> IF Truthy2(Prop(row, "timestamp"))
              THEN UTCString(NumberOf(Prop(row, "timestamp"))) ELSE Null,
     source |-> FngSource,
     stale |-> ~InScoreRange(val)]

FngFrom(row) == FngOut(row, NumberOf(Prop(row, "value")))

\* the catch block's miss
FngMiss == [score |-> Null, label |-> Null, asOf |-> Null, source |-> FngSource, stale |-> TRUE]

\* the values, classifications and timestamps a row can carry
FngValues ==
    {JString(<<"0">>),
     JString(<<"2", "5">>),
     JString(<<"2", "6">>),
     JString(<<"4", "4", ".", "4">>),
     JString(<<"5", "5">>),
     JString(<<"7", "4", ".", "5">>),
     JString(<<"1", "0", "0">>),
     JString(<<"1", "0", "0", ".", "5">>),
     JString(<<"-", "1">>),
     JString(<<"a", "b", "c">>),
     JString(<<>>),
     JNumber(Num(62000)), Null, Undefined}
FngClasses == {JString(<<"G", "r", "e", "e", "d">>), JString(<<>>), Undefined}
FngStamps == {JString(<<"8", "6", "4", "0", "0">>), JString(<<"s", "o", "o", "n">>), Undefined}

\* an object with the given properties, those that are undefined left out
ObjectOf(keys, val) == JObject([k \in {k \in keys : val[k] # Undefined} |-> val[k]])

FngRow(value, class, stamp) ==
    ObjectOf({"value", "value_classification", "timestamp"},
             [k \in {"value", "value_classification", "timestamp"} |->
                 CASE k = "value" -> value
                   [] k = "value_classification" -> class
                   [] k = "timestamp" -> stamp])

FngRows == {FngRow(v, c, s) : v \in FngValues, c \in FngClasses, s \in FngStamps}

\* the documents r.json() can resolve with
FngDocuments ==
    {Keyed("data", JArray(<<row>>)) : row \in FngRows}
        \cup {Keyed("data", JArray(<<>>)), Keyed("data", JString(<<"n", "o">>)),
              JObject(<<>>), Null}

FngEnds(out) ==
    /\ pc' = "done"
    /\ net' = "idle"
    /\ response' = [status |-> 200, body |-> out]

\* a request reaches the route
FngGET ==
    /\ pc = "idle"
    /\ pc' = "fng"
    /\ net' = "sent"
    /\ UNCHANGED <<response, csv, YdayRest>>

\* fetch() rejects
FngFetchRejects ==
    /\ pc = "fng"
    /\ net = "sent"
    /\ FngEnds(FngMiss)
    /\ csv' = [failed |-> "network"]
    /\ UNCHANGED YdayRest

\* if (!r.ok) throw new Error("bad status")
FngFetchNotOk ==
    /\ pc = "fng"
    /\ net = "sent"
    /\ FngEnds(FngMiss)
    /\ csv' = [failed |-> "status"]
    /\ UNCHANGED YdayRest

\* the response headers arrive with an ok status
FngFetchResolves ==
    /\ pc = "fng"
    /\ net = "sent"
    /\ net' = "reading"
    /\ UNCHANGED <<pc, response, csv, YdayRest>>

\* r.json() rejects: the read fails or the text is not JSON
FngReadRejects ==
    /\ pc = "fng"
    /\ net = "reading"
    /\ FngEnds(FngMiss)
    /\ csv' = [failed |-> "read"]
    /\ UNCHANGED YdayRest

\* r.json() resolves with j
FngReadResolves ==
    /\ pc = "fng"
    /\ net = "reading"
    /\ \E j \in FngDocuments :
          /\ FngEnds(FngFrom(First(Prop(j, "data"))))
          /\ csv' = [j |-> j]
    /\ UNCHANGED YdayRest

NextFng ==
    \/ FngGET
    \/ FngFetchRejects
    \/ FngFetchNotOk
    \/ FngFetchResolves
    \/ FngReadRejects
    \/ FngReadResolves

SpecFng == InitPcr /\ [][NextFng]_vars

-----------------------------------------------------------------------------
(* The effect of the dashboard page: six requests under Promise.all *)

Endpoints ==
    <<"/api/macro", "/api/earnings", "/api/sentiment-snapshot", "/api/options-brief",
      "/api/top-headlines", "/api/earnings-yday">>

\* the piece of React state each endpoint's answer is stored in
StateOf == <<"macro", "earnings", "sentiment", "options", "news", "yday">>

\* the endpoints whose answer is unpacked by .items
WithItems == {1, 2, 5, 6}

\* the promise fetch(url).then(r => r.json())
Pending == [st |-> "pending"]
Fulfilled(doc) == [st |-> "fulfilled", value |-> doc]
Failed == [st |-> "rejected"]

\* the documents endpoint k can answer with
Listing(k, isStale) ==
    JObject([key \in {"items", "stale"} |->
        IF key = "items" THEN JArray(<<JString(Endpoints[k])>>) ELSE isStale])
Unlisted == JObject([key \in {"stale"} |-> TRUE])
Figures(k, isStale) ==
    JObject([key \in {"asOf", "stale"} |-> IF key = "asOf" THEN JString(Endpoints[k]) ELSE isStale])
PageDocuments(k) ==
    IF k \in WithItems THEN {Listing(k, FALSE), Listing(k, TRUE), Unlisted, Null}
    ELSE {Figures(k, FALSE), Figures(k, TRUE), Null}

\* useState's initial values
PageInitial ==
    [macro |-> JArray(<<>>), earnings |-> JArray(<<>>), sentiment |-> JObject(<<>>),
     options |-> JObject(<<>>), news |-> JArray(<<>>), yday |-> JArray(<<>>),
     stale |-> FALSE]

\* m.items ?? [] and s ?? {}
Stored(k, doc) ==
    IF k \in WithItems THEN Coalesce(Prop(doc, "items"), JArray(<<>>))
    ELSE Coalesce(doc, JObject(<<>>))

\* m.items throws when m is null
SetterThrows(k, doc) == k \in WithItems /\ PropThrows(doc)

\* Boolean(m.stale || e.stale || ...), from the k-th operand on; reading
\* .stale of null throws, and the catch block sets stale
RECURSIVE AnyStale(_, _)
AnyStale(docs, k) ==
    IF k > Len(docs) THEN FALSE
    ELSE IF PropThrows(docs[k]) THEN TRUE
    ELSE IF Prop(docs[k], "stale") = TRUE THEN TRUE
    ELSE AnyStale(docs, k + 1)

\* the setters in the order of the code, from the k-th on; an exception on
\* the way leaves the later ones uncalled and the catch block sets stale
RECURSIVE SetFrom(_, _, _)
SetFrom(st, docs, k) ==
    IF k > Len(docs) THEN [st EXCEPT !.stale = AnyStale(docs, 1)]
    ELSE IF SetterThrows(k, docs[k]) THEN [st EXCEPT !.stale = TRUE]
    ELSE SetFrom([st EXCEPT ![StateOf[k]] = Stored(k, docs[k])], docs, k + 1)

\* catch { setStale(true) }
PageCatch(st) == [st EXCEPT !.stale = TRUE]

AllFulfilled(promises) == \A k \in 1..Len(promises) : promises[k].st = "fulfilled"
ValuesOf(promises) == [k \in 1..Len(promises) |-> promises[k].value]

PageRest == <<idx, timer, log, failures, vix, putCall, aaii, stale, response, fredKey, csv>>

\* the page mounts: the effect issues the six requests and awaits Promise.all
PageMount ==
    /\ pc = "idle"
    /\ pc' = "await"
    /\ net' = [k \in 1..Len(Endpoints) |-> Pending]
    /\ got' = [done |-> FALSE, fn |-> "Page", value |-> PageInitial]
    /\ UNCHANGED PageRest

\* the state after promise k was fulfilled: Promise.all resolves with the last
\* of the six, and the effect runs on through its setters
AfterFulfilled(promises) ==
    IF pc = "await" /\ AllFulfilled(promises)
    THEN /\ pc' = "done"
         /\ got' = [done |-> TRUE, fn |-> "Page",
                    value |-> SetFrom(got.value, ValuesOf(promises), 1)]
    ELSE UNCHANGED <<pc, got>>

\* an endpoint answers and its body parses as JSON
PageFetchFulfils ==
    /\ pc \in {"await", "done"}
    /\ \E k \in 1..Len(Endpoints) :
          /\ net[k].st = "pending"
          /\ \E doc \in PageDocuments(k) :
                /\ net' = [net EXCEPT ![k] = Fulfilled(doc)]
                /\ AfterFulfilled([net EXCEPT ![k] = Fulfilled(doc)])
    /\ UNCHANGED PageRest

\* fetch() rejects or r.json() rejects: the first rejection rejects
\* Promise.all, and the effect runs its catch block
PageFetchFails ==
    /\ pc \in {"await", "done"}
    /\ \E k \in 1..Len(Endpoints) :
          /\ net[k].st = "pending"
          /\ net' = [net EXCEPT ![k] = Failed]
    /\ IF pc = "await"
       THEN /\ pc' = "done"
            /\ got' = [done |-> TRUE, fn |-> "Page", value |-> PageCatch(got.value)]
       ELSE UNCHANGED <<pc, got>>
    /\ UNCHANGED PageRest

NextPage ==
    \/ PageMount
    \/ PageFetchFulfils
    \/ PageFetchFails

SpecPage == InitPcr /\ [][NextPage]_vars

-----------------------------------------------------------------------------
(* Properties of the sentiment-snapshot route *)

\* the attempts chain c has made so far, in the order made
ChainLog(c) == SelectSeq(log, LAMBDA e : e.chain = c)

\* chain c has returned to GET
Finished(c) ==
    CASE c = "getVIX" -> pc \in {"getPutCall", "getAAII", "done"}
      [] c = "getPutCall" -> pc \in {"getAAII", "done"}
      [] c = "getAAII" -> pc = "done"

\* what GET holds for chain c
ValueOf(c) ==
    CASE c = "getVIX" -> vix
      [] c = "getPutCall" -> putCall
      [] c = "getAAII" -> aaii

\* the source whose value chain c returned, "" if none
Answered(c) ==
    IF \E k \in 1..Len(log) : log[k].chain = c /\ log[k].st = "accepted"
    THEN (CHOOSE e \in Range(log) : e.chain = c /\ e.st = "accepted").src
    ELSE ""

\* chain c has tried its sources one at a time from the first, each next one
\* only after the one before it failed
OneAtATime(c) ==
    /\ \A k \in 1..Len(ChainLog(c)) : ChainLog(c)[k].src = SourcesOf(c)[k]
    /\ \A k \in 1..(Len(ChainLog(c)) - 1) : ChainLog(c)[k].st = "failed"

\* C1: getVIX and getPutCall request their sources in the declared order, the
\* next source only after the attempt on the one before it has failed; no
\* source is requested twice, none after a value was accepted, and no two
\* requests are ever pending together.
C1_SourcesInOrder ==
    /\ OneAtATime("getVIX")
    /\ OneAtATime("getPutCall")
    /\ Cardinality({k \in 1..Len(log) : log[k].st = "pending"}) <= 1
    /\ \A k \in 1..Len(log) : log[k].st = "pending" => k = Len(log)

\* C1 witness: both chains went through all three of their sources, the third
\* put/call source being the one that answered
C1_Witness ==
    /\ pc = "done"
    /\ Len(ChainLog("getVIX")) = 3
    /\ Len(ChainLog("getPutCall")) = 3
    /\ Answered("getPutCall") = CBOE_LEGACY[2]

\* every attempt of chain c failed: it ended in an error or without a value,
\* or what it read held no numeral at all
EverySourceFailed(c) ==
    \A k \in 1..Len(log) :
        log[k].chain = c => log[k].st = "failed" \/ (log[k].st = "accepted" /\ log[k].empty)

\* C2 (as claimed): when every source of getVIX, getPutCall or getAAII fails,
\* by an error, a bad status, a timeout or a body without a value, the
\* function resolves to null, and it never rejects.
C2_NullWhenAllFail ==
    /\ pc # "rejected"
    /\ \A c \in {"getVIX", "getPutCall", "getAAII"} :
          Finished(c) /\ EverySourceFailed(c) => ValueOf(c) = Null

RequiredKeys == {"vix", "putCall", "aaii", "fearGreed", "stale", "sources", "updated"}

\* C3: whatever the sources do, GET never rejects; it responds with status
\* 200 and a body that has all of vix, putCall, aaii, fearGreed, stale,
\* sources and updated, a field no source gave a value for being null.
C3_AlwaysResponds ==
    /\ pc # "rejected"
    /\ pc = "done" =>
          /\ response.status = 200
          /\ RequiredKeys \subseteq DOMAIN response.body
          /\ response.body.fearGreed = Null
          /\ \A c \in {"getVIX", "getPutCall", "getAAII"} :
                Answered(c) = "" => ValueOf(c) = Null
          /\ response.body.vix = vix
          /\ response.body.putCall = putCall
          /\ response.body.aaii = aaii

\* C3 witness: a response after failures of every kind, one field undetermined
C3_Witness ==
    /\ pc = "done"
    /\ {"network", "status", "timeout", "read", "malformed", "no value"} \subseteq failures
    /\ response.body.vix = Null
    /\ response.body.putCall # Null

\* the fields of a response body that could not be determined
Undetermined(b) ==
    {k \in {"vix", "putCall", "aaii"} :
        IF k = "aaii" THEN b.aaii = Null \/ (b.aaii.bull = Null /\ b.aaii.bear = Null)
        ELSE b[k] = Null}

\* C4: with exactly one of vix, putCall, aaii undetermined the body has
\* stale = true and no error key; the error key is there exactly when all
\* three are undetermined.
C4_StaleVersusError ==
    pc = "done" =>
        /\ Cardinality(Undetermined(response.body)) = 1 =>
              response.body.stale /\ "error" \notin DOMAIN response.body
        /\ "error" \in DOMAIN response.body <=>
              Cardinality(Undetermined(response.body)) = 3

\* C4 witness: only aaii is undetermined, as a record with bull and bear null
C4_Witness ==
    /\ pc = "done"
    /\ Undetermined(response.body) = {"aaii"}
    /\ response.body.aaii # Null

\* C5 (as claimed): stale = false implies that vix, putCall, aaii, aaii.bull
\* and aaii.bear are all non-null.
C5_FreshMeansComplete ==
    pc = "done" /\ ~response.body.stale =>
        /\ response.body.vix # Null
        /\ response.body.putCall # Null
        /\ response.body.aaii # Null
        /\ response.body.aaii.bull # Null
        /\ response.body.aaii.bear # Null

\* the sources a provenance label names
Names(label) ==
    CASE label = "Stooq (^VIX daily CSV) + Yahoo fallback + FRED VIXCLS (if FRED_API_KEY)" ->
            {Stooq, Yahoo, Fred}
      [] label = "CBOE daily put/call CSV (pc-ratio.csv, mirrors) + legacy totalpc.csv/equitypc.csv" ->
            Range(CBOE_CSV_CANDIDATES) \cup Range(CBOE_LEGACY)
      [] label = "AAII (public CSV)" -> {LocalFile, PublicHttp}
      [] OTHER -> {}

\* C6 (as claimed): when the first source of a chain fails and the second
\* succeeds, the chain's entry of the sources list names the second source
\* as the one that answered.
C6_ProvenanceNamesAnswerer ==
    pc = "done" =>
        /\ Answered("getVIX") = Yahoo => Names(response.body.sources[1]) = {Yahoo}
        /\ Answered("getPutCall") = CBOE_LEGACY[1] =>
              Names(response.body.sources[2]) = {CBOE_LEGACY[1]}
        /\ Answered("getAAII") = PublicHttp => Names(response.body.sources[3]) = {PublicHttp}

\* C7 (as claimed): getAAII never returns a record in which exactly one of
\* bull and bear is null.
C7_BullAndBearTogether ==
    Finished("getAAII") /\ aaii # Null => (aaii.bull = Null <=> aaii.bear = Null)

\* C8: every non-null putCall is strictly between 0 and 5, whichever source
\* and extraction path produced it.
C8_PutCallInRange ==
    /\ putCall # Null => putCall.t = "num" /\ putCall.v > 0 /\ putCall.v < 5000
    /\ pc = "done" => response.body.putCall = putCall

\* C8 witness: pc-ratio.csv was turned down and a legacy file gave the value
C8_Witness ==
    /\ pc = "done"
    /\ putCall # Null
    /\ Answered("getPutCall") \in Range(CBOE_LEGACY)

\* C9 (as claimed): in the /api/pcr chain a candidate ratio outside (0, 5),
\* such as 7.5, is never returned as pcr.
C9_OutOfRangeRejected ==
    pc = "done" /\ response.body.pcr # Null =>
        response.body.pcr.v > 0 /\ response.body.pcr.v < 5000

\* the Close of the last data row whose Close cell is a finite number, null
\* when there is no such row
LastValidClose(lines) ==
    NumberAtPos([i \in 1..Len(lines) |-> At(splitRow(lines[i]), 4)],
                MaxOf({i \in 2..Len(lines) : IsFinite(Number(At(splitRow(lines[i]), 4)))}))

\* C10 (as claimed): parseStooqVIX returns the Close of the last data row
\* whose Close cell is a finite number, passing over a trailing row that has
\* a number only in another column.
C10_LastRowWithClose ==
    got.done /\ got.fn = "parseStooqVIX" /\ csv \in StooqBodies =>
        got.value = LastValidClose(NonBlankLines(csv))

-----------------------------------------------------------------------------
(* The put/call chain and the VIX chain *)

\* what of a frame belongs to the put/call chain: where it stands, what it
\* has tried, and what GET holds for it
PutCallView(f) ==
    [pc |-> f.pc, idx |-> f.idx, net |-> f.net, putCall |-> f.putCall,
     log |-> SelectSeq(f.log, LAMBDA e : e.chain = "getPutCall")]

\* the values the VIX chain can have ended with
VixOutcomes == {Null, Num(0), Num(13300), Num(22500)}

\* the frame as it would be had the VIX chain ended with v on its first attempt
WithVix(f, v) ==
    [f EXCEPT !.vix = v, !.stale = IsNullish(v), !.failures = {},
              !.log = SelectSeq(@, LAMBDA e : e.chain # "getVIX")]

FetchFailures == {"network", "status", "timeout", "read"}

\* every event of a put/call attempt leads the put/call chain to the same
\* place from frame f as from the frame with the other VIX outcome v
SameStep(f, v) ==
    /\ \A why \in FetchFailures :
          PutCallView(Throws(WithVix(f, v), why)) = PutCallView(Throws(f, why))
    /\ \A body \in BodiesOf(SourcesOf(f.pc)[f.idx]) :
          PutCallView(Reads(WithVix(f, v), body)) = PutCallView(Reads(f, body))

\* the put/call chain went on until a source was accepted or none was left
RanToCompletion(lg) ==
    /\ lg # <<>>
    /\ \/ lg[Len(lg)].st = "accepted"
       \/ Len(lg) = Len(SourcesOf("getPutCall")) /\ lg[Len(lg)].st = "failed"

\* C11: the put/call chain is independent of the VIX chain. However the VIX
\* chain ended, getPutCall is started at its first source; every event of a
\* put/call attempt has the same effect on the put/call chain and on putCall
\* whatever value and history the VIX chain left; the chain is run until a
\* source is accepted or the last has failed, and putCall in the response is
\* non-null exactly when a put/call source was accepted.
C11_PutCallIndependentOfVix ==
    /\ Finished("getVIX") =>
          /\ ChainLog("getPutCall") # <<>>
          /\ ChainLog("getPutCall")[1].src = SourcesOf("getPutCall")[1]
    /\ pc = "getPutCall" => \A v \in VixOutcomes : SameStep(Frame, v)
    /\ Finished("getPutCall") => RanToCompletion(ChainLog("getPutCall"))
    /\ pc = "done" =>
          /\ response.body.putCall = putCall
          /\ putCall # Null <=> Answered("getPutCall") # ""

\* C11 witness: every VIX source failed, one of them by its timeout, and the
\* first put/call source still gave the value of the response
C11_Witness ==
    /\ pc = "done"
    /\ Len(ChainLog("getVIX")) = 3
    /\ response.body.vix = Null
    /\ "timeout" \in failures
    /\ Answered("getPutCall") = CBOE_CSV_CANDIDATES[1]
    /\ response.body.putCall # Null

\* the chains that have issued at least one request
Launched == {log[k].chain : k \in 1..Len(log)}

\* C12 (as claimed): the three field fetches are launched together, so that
\* from the moment GET runs each of getVIX, getPutCall and getAAII has issued
\* its first request, the put/call request not waiting for the VIX chain to
\* end; the response is assembled only after all three have returned.
C12_LaunchedConcurrently ==
    /\ pc \notin {"idle", "rejected"} => Launched = {"getVIX", "getPutCall", "getAAII"}
    /\ pc = "done" => \A c \in {"getVIX", "getPutCall", "getAAII"} : Finished(c)

-----------------------------------------------------------------------------
(* Timeouts of the sentiment-snapshot route *)

HttpChains == {"getVIX", "getPutCall"}

\* the frame without the record of why attempts failed
Forget(f) == [f EXCEPT !.failures = {}]

\* what chain c has returned is a number or null
ValueOrNull(c) == ValueOf(c) = Null \/ (ValueOf(c).t = "num" /\ ValueOf(c) = Num(ValueOf(c).v))

\* C13: every request of getVIX and getPutCall has its own armed timer and no
\* other timer is left armed; the timer's abort takes the handler exactly
\* where an HTTP error status does (on to the next source); and on a runtime
\* whose timers fire, getVIX and getPutCall, once started, always return,
\* with a number or null, even when no upstream ever answers.
C13_TimeoutsEndChains ==
    /\ [](pc \in HttpChains => timer = {Current})
    /\ [](pc \in HttpChains =>
            Forget(Throws(Frame, "timeout")) = Forget(Throws(Frame, "status")))
    /\ [](\A c \in HttpChains : Finished(c) => ValueOrNull(c))
    /\ (pc \in HttpChains) ~> (Finished("getVIX") /\ Finished("getPutCall"))

\* C13 witness: no upstream answered; all six requests of getVIX and
\* getPutCall were ended by their timers and both functions returned null
C13_Witness ==
    /\ pc = "getAAII"
    /\ failures = {"timeout"}
    /\ Len(ChainLog("getVIX")) = 3
    /\ Len(ChainLog("getPutCall")) = 3
    /\ \A k \in 1..Len(log) : log[k].chain \in HttpChains => log[k].st = "failed"
    /\ vix = Null
    /\ putCall = Null
    /\ timer = {}

-----------------------------------------------------------------------------
(* Timeouts of the /api/pcr route *)

\* C14 (as claimed): every request of the /api/pcr chain is bounded by a
\* timeout that cancels it: while a candidate's request or body read is
\* awaited, a timer for that candidate is armed, so that a candidate that
\* never answers is abandoned for the next one.
C14_PcrRequestsTimed ==
    PcrInFlight => PCR_CANDIDATES[idx] \in timer

-----------------------------------------------------------------------------
(* Properties of the put/call route with CSV and HTML fallbacks *)

\* the candidates in the order the route's doc comment gives: CSV, then HTML
CsvThenHtml == csvCandidates \o htmlCandidates

\* C15: GET of the put/call route never throws and probes in a fixed order:
\* the three CSV candidates in list order, an HTML candidate only after all
\* three CSV candidates have failed, each next candidate only after the one
\* before it failed.  A response with a value comes from the last candidate
\* probed, names that candidate's URL as source and has stale = false; the
\* response {pcr: null, stale: true} comes only after all five candidates
\* have been probed and have failed.
C15_CsvThenHtmlInOrder ==
    /\ pc # "rejected"
    /\ \A k \in 1..Len(log) : log[k].src = CsvThenHtml[k]
    /\ \A k \in 1..(Len(log) - 1) : log[k].st = "failed"
    /\ \A k \in 1..Len(log) :
          log[k].src \in Range(htmlCandidates) =>
              /\ log[k].chain = "tryHtml"
              /\ \A u \in Range(csvCandidates) :
                    \E j \in 1..(k - 1) : log[j].src = u /\ log[j].st = "failed"
    /\ pc = "done" =>
          /\ response.status = 200
          /\ IF response.body.pcr # Null
             THEN /\ log[Len(log)].st = "accepted"
                  /\ response.body.source = log[Len(log)].src
                  /\ response.body.stale = FALSE
             ELSE /\ response.body.stale = TRUE
                  /\ Len(log) = Len(CsvThenHtml)
                  /\ \A k \in 1..Len(log) : log[k].st = "failed"

\* C15 witness: the three CSV candidates and the first HTML page failed, each
\* in another way, and the second HTML page gave the value
C15_Witness ==
    /\ pc = "done"
    /\ Len(log) = 5
    /\ failures = {"network", "status", "no value", "no plausible number"}
    /\ response.body.pcr # Null
    /\ response.body.source = htmlCandidates[2]

-----------------------------------------------------------------------------
(* Properties of parseAAII *)

\* name contains the letters of word in a row, each in either case
ContainsAnyCase(name, lower, upper) ==
    \E k \in 0..(Len(name) - Len(lower)) :
        \A j \in 1..Len(lower) : name[k + j] \in {lower[j], upper[j]}

\* the first column (1-based, 0 if none) whose name contains word in any case
FirstNamed(cells, lower, upper) ==
    MinOf({k \in 1..Len(cells) : ContainsAnyCase(cells[k], lower, upper)})

BULL == <<"B", "U", "L", "L">>
BEAR == <<"B", "E", "A", "R">>

\* what parseAAII is to return for the data row, given the columns b and r
ExpectedAAII(value, row, b, r) ==
    IF b = 0 \/ r = 0 \/ row = NoRow THEN value = Null
    ELSE /\ value # Null
         /\ value.bull = FiniteOrNull(Number(row[b]))
         /\ value.bear = FiniteOrNull(Number(row[r]))

ExpectedFrom(value, lines, cells) ==
    ExpectedAAII(value, lastDataRow(lines), FirstNamed(cells, Bull, BULL),
                 FirstNamed(cells, Bear, BEAR))

\* C16: on a text of at least two lines, parseAAII reads bull from the first
\* column whose heading contains "bull" and bear from the first whose heading
\* contains "bear", in any letter case and at any column position, taking
\* both from the last data row; it returns null when no heading contains
\* "bull" or none contains "bear".
C16_HeadingsMatchedInAnyCase ==
    got.done /\ got.fn = "parseAAII" /\ csv \in AaiiHeadingBodies /\ Len(NonBlankLines(csv)) >= 2 =>
        ExpectedFrom(got.value, NonBlankLines(csv), splitRow(NonBlankLines(csv)[1]))

\* C16 witness: with the headings "date,BULL_PCT,Bull 8wk,Bearish" bull was
\* read from the first of the two bull columns and bear from the last column
C16_Witness ==
    /\ got.done
    /\ got.fn = "parseAAII"
    /\ csv = <<HdrAaiiTwoBull, AaiiGood>>
    /\ got.value # Null
    /\ got.value.bull = Num(40100)
    /\ got.value.bear = Num(29900)

-----------------------------------------------------------------------------
(* Properties of parseCboePCR *)

\* the hints for the total ratio, in the order of their priority
TotalHints == <<HintTotal, HintAll, HintTotalVerbatim, HintRatioTotal>>

\* the cell of row under the first heading that contains hint, as a number
UnderHeading(header, row, hint) == Number(At(row, FindIncludes(header, hint)))

\* the value the headings resolve for the first hint, in order, whose column
\* holds a finite number; undefined when no hint resolves
ResolvedAt(header, row, hints, j) ==
    IF j = 0 THEN Undefined ELSE UnderHeading(header, row, hints[j])
Resolved(header, row, hints) ==
    ResolvedAt(header, row, hints,
               MinOf({j \in 1..Len(hints) : IsFinite(UnderHeading(header, row, hints[j]))}))

\* the positional fallback: the first cell from the right that is a finite
\* number in (0, 5); undefined when there is none
FromTheRight(row) ==
    MaxOf({k \in 1..Len(row) :
              IsFinite(Number(row[k])) /\ Number(row[k]).v > 0 /\ Number(row[k]).v < 5000})

GuessOf(row, k) == IF k = 0 THEN Undefined ELSE Number(row[k])

\* what parseCboePCR is to return given what the headings resolved
ExpectedPcr(value, total, equity, index, guess) ==
    IF total = Undefined /\ equity = Undefined /\ index = Undefined
    THEN IF guess = Undefined THEN value = Null
         ELSE value # Null /\ value.total = guess
    ELSE /\ value # Null
         /\ value.total = total
         /\ value.equity = equity
         /\ value.index = index

ExpectedPcrFrom(value, header, row) ==
    ExpectedPcr(value, Resolved(header, row, TotalHints), Resolved(header, row, <<HintEquity>>),
                Resolved(header, row, <<HintIndex>>), GuessOf(row, FromTheRight(row)))

\* C17 (as claimed): parseCboePCR resolves total by the hints "total", "all",
\* "total put/call ratio", "put/call ratio total" in that order; it uses the
\* positional guess (the first finite value in (0, 5) from the right of the
\* last data row) only when the headings resolved no value for total, equity
\* or index, and never overwrites a value resolved from the headings.
C17_HeadingsBeforeGuess ==
    /\ got.done
    /\ got.fn = "parseCboePCR"
    /\ csv \in PcrBodies \cup PcrHintBodies
    /\ Len(NonBlankLines(csv)) >= 2
    /\ lastDataRow(NonBlankLines(csv)) # NoRow
    => ExpectedPcrFrom(got.value, HeaderOf(NonBlankLines(csv)), lastDataRow(NonBlankLines(csv)))

-----------------------------------------------------------------------------
(* Properties of the earnings-yday route *)

\* the reply was read to its end: csv holds its status and text
ReplyRead == "text" \in DOMAIN csv

\* the JSON document of the reply, {} for an empty text
DocumentOf(text) == IF text.kind = "json" THEN text.json ELSE JObject(<<>>)

\* the document carries one of Alpha Vantage's messages
HasIndicator(doc) ==
    /\ doc.t = "object"
    /\ \E key \in {"Note", "Information", "Error Message"} \cap DOMAIN doc.v :
          doc.v[key].t = "str" /\ doc.v[key].v # <<>>

\* the rows of the document, wherever it keeps them
RowsOf(doc) ==
    IF doc.t = "array" THEN doc.v
    ELSE IF doc.t # "object" THEN <<>>
    ELSE IF "earningsCalendar" \in DOMAIN doc.v /\ doc.v["earningsCalendar"].t = "array"
         THEN doc.v["earningsCalendar"].v
    ELSE IF "EarningsCalendar" \in DOMAIN doc.v THEN doc.v["EarningsCalendar"].v
    ELSE <<>>

\* the row reports for yesterday
ForYesterday(row) ==
    /\ row.t = "object"
    /\ \E key \in {"reportDate", "report_date"} \cap DOMAIN row.v : row.v[key] = JDate(Today - 1)

\* the reply is one of the failures the claim lists
YdayFailed ==
    \/ ~ReplyRead
    \/ csv.text.kind = "invalid"
    \/ csv.status # 200
    \/ HasIndicator(DocumentOf(csv.text))
    \/ \E k \in 1..Len(RowsOf(DocumentOf(csv.text))) : RowsOf(DocumentOf(csv.text))[k] = Null

\* C18: GET of earnings-yday never rejects.  It always answers with status
\* 200 and a body that has items (an array), source and stale; the body has
\* stale = true after a missing key, a failed fetch or read, a text that is
\* not JSON, a Note / Information / Error Message, a status other than 200
\* and an exception thrown while mapping; stale = false only with status 200,
\* none of Alpha Vantage's messages and at least one item, the items being
\* the rows reported for yesterday.
C18_YdayNeverCrashes ==
    /\ pc # "rejected"
    /\ pc = "done" =>
          /\ response.status = 200
          /\ {"items", "source", "stale"} \subseteq DOMAIN response.body
          /\ response.body.source = "Alpha Vantage"
          /\ response.body.stale \in BOOLEAN
          /\ DOMAIN response.body.items = 1..Len(response.body.items)
          /\ YdayFailed => response.body.stale
          /\ ~response.body.stale =>
                /\ Len(response.body.items) >= 1
                /\ "error" \notin DOMAIN response.body
                /\ Len(response.body.items) =
                      Cardinality({k \in 1..Len(RowsOf(DocumentOf(csv.text))) :
                                      ForYesterday(RowsOf(DocumentOf(csv.text))[k])})

\* C18 witness: Alpha Vantage answered 429 with a calendar that has a row for
\* yesterday; the body carries the item, the error and stale = true
C18_Witness ==
    /\ pc = "done"
    /\ ReplyRead
    /\ csv.status = 429
    /\ Len(response.body.items) = 1
    /\ response.body.stale
    /\ "error" \in DOMAIN response.body

-----------------------------------------------------------------------------
(* Properties of the Fear & Greed route *)

\* the value alternative.me sent, undefined when the document has no row
SentValue ==
    IF "j" \notin DOMAIN csv THEN Undefined
    ELSE IF csv.j.t # "object" \/ "data" \notin DOMAIN csv.j.v THEN Undefined
    ELSE IF csv.j.v["data"].t # "array" \/ csv.j.v["data"].v = <<>> THEN Undefined
    ELSE IF "value" \in DOMAIN csv.j.v["data"].v[1].v THEN csv.j.v["data"].v[1].v["value"]
    ELSE Undefined

\* x is a number, or the text of a number
Numeric(x) == x.t = "num" \/ (x.t = "str" /\ IsNumeral(x.v))

\* the number a numeric value stands for
Meant(x) == IF x.t = "num" THEN x ELSE Number(x.v)

\* C19 (as claimed): the Fear & Greed handler never throws; score is null or
\* an integer in 0..100, stale = false exactly when score is non-null, label
\* is non-null exactly when score is; and a failed fetch, a status that is
\* not ok, and a value that is not numeric or lies outside 0..100 give
\* score = null with stale = true.
C19_ScoreNullOrInRange ==
    /\ pc # "rejected"
    /\ pc = "done" =>
          /\ response.status = 200
          /\ \/ response.body.score = Null
             \/ /\ response.body.score.t = "num"
                /\ response.body.score.v % 1000 = 0
                /\ response.body.score.v >= 0
                /\ response.body.score.v <= 100000
          /\ response.body.stale = (response.body.score = Null)
          /\ (response.body.label = Null) = (response.body.score = Null)
          /\ "failed" \in DOMAIN csv => response.body.score = Null
          /\ ~Numeric(SentValue) => response.body.score = Null
          /\ Numeric(SentValue) /\ (Meant(SentValue).v < 0 \/ Meant(SentValue).v > 100000) =>
                response.body.score = Null

-----------------------------------------------------------------------------
(* Properties of the dashboard page *)

\* all six requests have settled and the effect has finished
PageSettled ==
    /\ pc = "done"
    /\ got.fn = "Page"
    /\ \A k \in 1..Len(Endpoints) : net[k].st # "pending"

\* the data of a document as the page is to hold it: the items of a listing,
\* the figures of a snapshot
DataOf(k, doc) ==
    IF k \notin WithItems THEN doc
    ELSE IF "items" \in DOMAIN doc.v THEN doc.v["items"]
    ELSE JArray(<<>>)

\* C20 (as claimed): when exactly one of the six requests is rejected (the
\* fetch fails or the body is not JSON) and the other five deliver their
\* documents, the page holds the data of the other five, only the piece of
\* the failed endpoint keeping its blank initial value.
C20_PartialLossStaysPartial ==
    PageSettled =>
        \A bad \in 1..Len(Endpoints) :
            /\ net[bad].st = "rejected"
            /\ \A k \in 1..Len(Endpoints) \ {bad} :
                  net[k].st = "fulfilled" /\ net[k].value # Null
            => /\ got.value[StateOf[bad]] = PageInitial[StateOf[bad]]
               /\ \A k \in 1..Len(Endpoints) \ {bad} :
                     got.value[StateOf[k]] = DataOf(k, net[k].value)

-----------------------------------------------------------------------------
(* GET of the earnings-yday variant built on fetchAlphaVantage: no try      *)
(* block anywhere, one fetch, r.json(), a filter on yesterday's market day  *)

\* Date.getUTCDay of a UTC day number: 0 is Sunday, 6 is Saturday
UTCDay(day) == (day + 4) % 7

\* do { t = t - 1 } while ([0, 6].includes(t.getUTCDay()))
RECURSIVE BackToWeekday(_)
BackToWeekday(t) == IF UTCDay(t) \in {0, 6} THEN BackToWeekday(t - 1) ELSE t

previousUSMarketDay(d) == BackToWeekday(d - 1)

\* x?.estimate != null ? Number(x.estimate) : null
NumberOrNull(x) == IF IsNullish(x) THEN Null ELSE NumberOf(x)

\* est != null && act != null && est !== 0 ? ((act - est) / Math.abs(est)) * 100 : null,
\* then Number.isFinite(surprisePct) ? Number(surprisePct.toFixed(1)) : null
surprisePct(act, est) ==
    IF IsFinite(est) /\ IsFinite(act) /\ est.v # 0 THEN SurpriseOf(act, est) ELSE Null

\* one element of items
CalendarItem(x) ==
    [time |-> "TBD",
     symbol |-> Coalesce(Prop(x, "symbol"), JString(<<>>)),
     companyName |-> Coalesce(Prop(x, "name"), Coalesce(Prop(x, "symbol"), JString(<<>>))),
     epsActual |-> FiniteOrNull(NumberOrNull(Prop(x, "eps"))),
     epsEstimate |-> FiniteOrNull(NumberOrNull(Prop(x, "estimate"))),
     surprisePct |-> surprisePct(NumberOrNull(Prop(x, "eps")), NumberOrNull(Prop(x, "estimate"))),
     mktCap |-> Null]

\* Array.isArray(data?.earningsCalendar) ? data.earningsCalendar : []
CalendarIn(data) ==
    IF Prop(data, "earningsCalendar").t = "array" THEN Prop(data, "earningsCalendar").v ELSE <<>>

\* raw.filter((x) => x?.reportDate === yday)
OnDay(raw, yday) == SelectSeq(raw, LAMBDA x : Prop(x, "reportDate") = JDate(yday))

\* rows.slice(0, 30)
SliceEnd == 30
Slice(rows) == SubSeq(rows, 1, IF Len(rows) < SliceEnd THEN Len(rows) ELSE SliceEnd)

\* the three objects fetchAlphaVantage returns
CalendarFailure(error) ==
    [items |-> <<>>, stale |-> TRUE, source |-> AlphaVantage, error |-> error]
CalendarItems(data, d) ==
    [items |-> [k \in 1..Len(Slice(OnDay(CalendarIn(data), previousUSMarketDay(d)))) |->
                   CalendarItem(Slice(OnDay(CalendarIn(data), previousUSMarketDay(d)))[k])],
     stale |-> FALSE, source |-> AlphaVantage]

\* the days a request can arrive on: a Wednesday, the Sunday and the Monday
\* after it
RequestDays == {Today, Today + 4, Today + 5}

\* the rows of the calendar
CalendarRow(day, eps, estimate) ==
    ObjectOf({"reportDate", "symbol", "eps", "estimate"},
             [k \in {"reportDate", "symbol", "eps", "estimate"} |->
                 CASE k = "reportDate" -> JDate(day)
                   [] k = "symbol" -> JString(<<"A", "C", "M", "E">>)
                   [] k = "eps" -> eps
                   [] k = "estimate" -> estimate])
CalendarRows ==
    {CalendarRow(Today - 1, JString(<<"1", ".", "2">>), JNumber(Num(1000))),
     CalendarRow(Today + 2, JString(<<"0", ".", "9">>), JString(<<"1", ".", "2">>)),
     CalendarRow(Today + 2, Undefined, JNumber(Num(0))),
     CalendarRow(Today - 2, JString(<<"n", "/", "a">>), Null),
     Null}
CalendarDocuments ==
    {Keyed("earningsCalendar", JArray(rows)) : rows \in RowsUpTo(CalendarRows, MaxRows)}
        \cup {Keyed("Note", RateLimited), Keyed("earningsCalendar", JString(<<"n", "o">>)), Null}

\* GET is done with NextResponse.json(res), or its promise rejected
CalendarEnds(r, how) ==
    /\ pc' = IF r = Rejected THEN "rejected" ELSE "done"
    /\ net' = "idle"
    /\ response' = r
    /\ csv' = [failed |-> how]

CalendarRest == <<idx, timer, log, failures, vix, putCall, aaii, stale, fredKey>>

\* a request reaches the route on day d; key is process.env.ALPHA_VANTAGE_KEY
CalendarGET ==
    /\ pc = "idle"
    /\ \E key \in BOOLEAN, d \in RequestDays :
          /\ got' = [done |-> FALSE, fn |-> "fetchAlphaVantage", value |-> d]
          /\ IF ~key
             THEN CalendarEnds(Ok200(CalendarFailure("Missing ALPHA_VANTAGE_KEY")), "key")
             ELSE pc' = "calendar" /\ net' = "sent" /\ UNCHANGED <<response, csv>>
    /\ UNCHANGED CalendarRest

\* fetch() rejects: nothing catches it, in fetchAlphaVantage or in GET
CalendarFetchRejects ==
    /\ pc = "calendar"
    /\ net = "sent"
    /\ CalendarEnds(Rejected, "network")
    /\ UNCHANGED <<got, CalendarRest>>

\* if (!r.ok) return { items: [], stale: true, ..., error: `HTTP ${r.status}` }
CalendarFetchNotOk ==
    /\ pc = "calendar"
    /\ net = "sent"
    /\ \E status \in AvStatuses \ {200} :
          CalendarEnds(Ok200(CalendarFailure(HttpError(status))), "status")
    /\ UNCHANGED <<got, CalendarRest>>

\* the response headers arrive with an ok status
CalendarFetchResolves ==
    /\ pc = "calendar"
    /\ net = "sent"
    /\ net' = "reading"
    /\ UNCHANGED <<pc, response, csv, got, CalendarRest>>

\* r.json() rejects: the body is not valid JSON, or reading it fails
CalendarReadRejects ==
    /\ pc = "calendar"
    /\ net = "reading"
    /\ \E how \in {"invalid JSON", "read"} : CalendarEnds(Rejected, how)
    /\ UNCHANGED <<got, CalendarRest>>

\* r.json() resolves with data
CalendarReadResolves ==
    /\ pc = "calendar"
    /\ net = "reading"
    /\ \E data \in CalendarDocuments :
          /\ pc' = "done"
          /\ net' = "idle"
          /\ response' = Ok200(CalendarItems(data, got.value))
          /\ csv' = [failed |-> "none", data |-> data]
    /\ UNCHANGED <<got, CalendarRest>>

NextCalendar ==
    \/ CalendarGET
    \/ CalendarFetchRejects
    \/ CalendarFetchNotOk
    \/ CalendarFetchResolves
    \/ CalendarReadRejects
    \/ CalendarReadResolves

SpecCalendar == InitPcr /\ [][NextCalendar]_vars

\* the request failed in transport: the network, the status, or a body that
\* is not JSON
TransportFailures == {"network", "status", "invalid JSON", "read"}

\* C21 (as claimed): GET never rejects, and a request that failed in
\* transport (network error, status that is not 2xx, body that is not valid
\* JSON) is answered with { items: [], stale: true, error }.
C21_TransportFailuresAsData ==
    /\ pc # "rejected"
    /\ pc = "done" /\ csv.failed \in TransportFailures =>
          /\ response.status = 200
          /\ response.body.items = <<>>
          /\ response.body.stale
          /\ "error" \in DOMAIN response.body

-----------------------------------------------------------------------------
(* The /api/aaii route: fetchAAII and GET *)

AAII_CANDIDATES ==
    <<"www.aaii.com sentiment.csv", "aaii.com sentiment.csv",
      "www.aaii.com sentiment.csv?nocache=1">>

\* "Date,Bullish,Neutral,Bearish"
HdrSurvey ==
    <<"D", "a", "t", "e", ",", "B", "u", "l", "l", "i", "s", "h", ",", "N", "e", "u", "t", "r",
      "a", "l", ",", "B", "e", "a", "r", "i", "s", "h">>
\* "2024-01-11,38.25%,31.5%,30.25%"
SurveyPct ==
    <<"2", "0", "2", "4", "-", "0", "1", "-", "1", "1", ",", "3", "8", ".", "2", "5", "%", ",",
      "3", "1", ".", "5", "%", ",", "3", "0", ".", "2", "5", "%">>
\* "2024-01-18,-,36,30,34"
SurveyNote ==
    <<"2", "0", "2", "4", "-", "0", "1", "-", "1", "8", ",", "-", ",", "3", "6", ",", "3", "0",
      ",", "3", "4">>

SurveyLines == {AaiiGood, AaiiBullOnly, AaiiEmptyCells, SurveyPct, SurveyNote, RowText}
SurveyBodies == Bodies({HdrSurvey}, SurveyLines) \cup {<<>>}

\* row.slice(1).map((s) => Number(String(s).replace(/[^\d.\-]/g, ""))).filter((n) => isFinite(n))
nums(row) ==
    SelectSeq([k \in 1..(Len(row) - 1) |-> Number(StripNonNumeric(row[k + 1]))], IsFinite)

\* Math.round(x * 10) / 10, x in thousandths
RoundTenth(x) == Num(((x.v + 50) \div 100) * 100)

NoSurvey == [bulls |-> Null, bears |-> Null]

\* a row the scan returns on: at least three cells, at least three of those
\* after the date converting to a finite number
Returns(row) == Len(row) >= 3 /\ Len(nums(row)) >= 3

SurveyFromRow(row) ==
    [bulls |-> RoundTenth(nums(row)[1]), bears |-> RoundTenth(nums(row)[3]), asOf |-> row[1]]

\* for (let i = lines.length - 1; i > 0; i--): the last line after the first
\* that the scan returns on; fewer than two lines, or no such line: nothing
ScanSurvey(lines) ==
    IF {i \in 2..Len(lines) : Returns(splitRow(lines[i]))} = {} THEN NoSurvey
    ELSE SurveyFromRow(splitRow(lines[MaxOf({i \in 2..Len(lines) : Returns(splitRow(lines[i]))})]))

\* the scan, tabulated once over the bodies a candidate can answer with
SurveyOutcome == [body \in SurveyBodies |-> ScanSurvey(NonEmptyLines(body))]

\* Response.json({ ...data, stale: data.bulls == null || data.bears == null })
SurveyJson(data) ==
    [k \in DOMAIN data \cup {"stale"} |->
        IF k = "stale" THEN IsNullish(data.bulls) \/ IsNullish(data.bears) ELSE data[k]]

SurveyRest == <<timer, failures, vix, putCall, aaii, stale, fredKey, got>>

\* GET answers with data
SurveyRespond(data) ==
    /\ pc' = "done"
    /\ idx' = 0
    /\ net' = "idle"
    /\ response' = [status |-> 200, body |-> SurveyJson(data)]

\* the attempt in flight ended with st; the loop goes on to the next candidate,
\* and past the last one fetchAAII returns { bulls: null, bears: null }
SurveyNext(st) ==
    /\ log' = Append(log, [src |-> AAII_CANDIDATES[idx], st |-> st])
    /\ IF idx = Len(AAII_CANDIDATES) THEN SurveyRespond(NoSurvey)
       ELSE pc' = pc /\ idx' = idx + 1 /\ net' = "sent" /\ response' = response

SurveyInFlight == pc = "fetchAAII"

\* a request reaches /api/aaii
SurveyGET ==
    /\ pc = "idle"
    /\ pc' = "fetchAAII"
    /\ idx' = 1
    /\ net' = "sent"
    /\ UNCHANGED <<log, response, csv, SurveyRest>>

\* fetch() rejects
SurveyFetchRejects ==
    /\ SurveyInFlight
    /\ net = "sent"
    /\ SurveyNext("network")
    /\ UNCHANGED <<csv, SurveyRest>>

\* if (!r.ok) continue
SurveyFetchNotOk ==
    /\ SurveyInFlight
    /\ net = "sent"
    /\ SurveyNext("status")
    /\ UNCHANGED <<csv, SurveyRest>>

\* the response headers arrive with an ok status
SurveyFetchResolves ==
    /\ SurveyInFlight
    /\ net = "sent"
    /\ net' = "reading"
    /\ UNCHANGED <<pc, idx, log, response, csv, SurveyRest>>

\* r.text() rejects
SurveyReadRejects ==
    /\ SurveyInFlight
    /\ net = "reading"
    /\ SurveyNext("read")
    /\ UNCHANGED <<csv, SurveyRest>>

\* r.text() resolves with body
SurveyReadResolves ==
    /\ SurveyInFlight
    /\ net = "reading"
    /\ \E body \in SurveyBodies :
          /\ csv' = body
          /\ IF SurveyOutcome[body] = NoSurvey THEN SurveyNext("no row")
             ELSE /\ log' = Append(log, [src |-> AAII_CANDIDATES[idx], st |-> "accepted"])
                  /\ SurveyRespond(SurveyOutcome[body])
    /\ UNCHANGED SurveyRest

NextSurvey ==
    \/ SurveyGET
    \/ SurveyFetchRejects
    \/ SurveyFetchNotOk
    \/ SurveyFetchResolves
    \/ SurveyReadRejects
    \/ SurveyReadResolves

SpecSurvey == InitPcr /\ [][NextSurvey]_vars

-----------------------------------------------------------------------------
(* Properties of the /api/aaii route *)

\* a cell that holds a number, with or without a sign such as '%'
HoldsNumber(cell) == StripNonNumeric(cell) # <<>> /\ IsFinite(Number(StripNonNumeric(cell)))

\* the cells after the date that hold a number, in order
NumericCells(row) == SelectSeq(SubSeq(row, 2, Len(row)), HoldsNumber)

\* a valid numeric data row: a date and at least three cells that hold numbers
ValidDataRow(row) == Len(NumericCells(row)) >= 3

\* the last row below the header that is a valid numeric data row, 0: none
LastValidRow(lines) == MaxOf({i \in 2..Len(lines) : ValidDataRow(splitRow(lines[i]))})

\* the answer was taken from the body in csv
SurveyAccepted == pc = "done" /\ log # <<>> /\ log[Len(log)].st = "accepted"

\* C22 (as claimed): bulls and bears come from the last row below the header
\* that is a valid numeric data row, rows whose cells after the date are not
\* numbers being skipped: they are the first and the third numeric cell of
\* that row, rounded to a tenth; bulls is null exactly when bears is.
C22_LastValidNumericRow ==
    /\ pc = "done" => (response.body.bulls = Null) = (response.body.bears = Null)
    /\ SurveyAccepted =>
          /\ LastValidRow(NonEmptyLines(csv)) # 0
          /\ response.body.asOf = splitRow(NonEmptyLines(csv)[LastValidRow(NonEmptyLines(csv))])[1]
          /\ response.body.bulls =
                RoundTenth(Number(StripNonNumeric(
                    NumericCells(splitRow(NonEmptyLines(csv)[LastValidRow(NonEmptyLines(csv))]))[1])))
          /\ response.body.bears =
                RoundTenth(Number(StripNonNumeric(
                    NumericCells(splitRow(NonEmptyLines(csv)[LastValidRow(NonEmptyLines(csv))]))[3])))

-----------------------------------------------------------------------------
(* The earlier parseCboePCR of the sentiment-snapshot route, which computes *)
(* totalIdx, equityIdx and indexIdx from header.findIndex                   *)

\* header.findIndex((h) => h.includes("total")) ?? header.findIndex((h) => h.includes("all")):
\* findIndex returns a number, -1 when nothing matches
totalIdx(header) ==
    Coalesce(Num(FindIncludes(header, HintTotal)), Num(FindIncludes(header, HintAll))).v

\* if (idx >= 0) { const n = Number(row[idx]); if (Number.isFinite(n)) out.field = n }
SetAtIndex(row, i) == IF i >= 0 THEN SetIfFinite(Number(At(row, i))) ELSE Undefined

OutByIndex(header, row) ==
    IF row = NoRow THEN Null
    ELSE NullIfEmpty([t |-> "pcr",
                      total |-> SetAtIndex(row, totalIdx(header)),
                      equity |-> SetAtIndex(row, FindIncludes(header, HintEquity)),
                      index |-> SetAtIndex(row, FindIncludes(header, HintIndex))])

ByIndexOf(lines) ==
    IF Len(lines) < 2 THEN Null ELSE OutByIndex(HeaderOf(lines), lastDataRow(lines))

parseCboePCRByIndex(body) == ByIndexOf(NonBlankLines(body))

\* "Date;All;Index;Equity"
HdrAllEquity ==
    <<"D", "a", "t", "e", ";", "A", "l", "l", ";", "I", "n", "d", "e", "x", ";", "E", "q", "u",
      "i", "t", "y">>
\* "DATE,CALLS,PUTS,Overall P/C"
HdrOverall ==
    <<"D", "A", "T", "E", ",", "C", "A", "L", "L", "S", ",", "P", "U", "T", "S", ",", "O", "v",
      "e", "r", "a", "l", "l", " ", "P", "/", "C">>
\* "Date;Total;All;Equity"
HdrTotalAll ==
    <<"D", "a", "t", "e", ";", "T", "o", "t", "a", "l", ";", "A", "l", "l", ";", "E", "q", "u",
      "i", "t", "y">>

ByIndexBodies ==
    Bodies({HdrAllEquity, HdrOverall, HdrTotalAll, HdrPcrNew},
           {PcrGood, PcrTotalEmpty, PcrVolume, RowText})

InitByIndex ==
    /\ pc = "parse"
    /\ idx = 0
    /\ net = "idle"
    /\ timer = {}
    /\ log = <<>>
    /\ failures = {}
    /\ vix = Null
    /\ putCall = Null
    /\ aaii = Null
    /\ stale = FALSE
    /\ response = NoResponse
    /\ fredKey = FALSE
    /\ csv \in ByIndexBodies
    /\ got = NoResult

CallCboePCRByIndex ==
    /\ ~got.done
    /\ got' = Result("parseCboePCR (totalIdx)", parseCboePCRByIndex(csv))
    /\ UNCHANGED <<Handler, csv>>

SpecByIndex == InitByIndex /\ [][CallCboePCRByIndex]_vars

\* no heading includes "total", one includes "all", and the last data row
\* holds a number under the first such heading
AllColumnOnly(lines) ==
    /\ Len(lines) >= 2
    /\ FindIncludes(HeaderOf(lines), HintTotal) = -1
    /\ FindIncludes(HeaderOf(lines), HintAll) >= 0
    /\ lastDataRow(lines) # NoRow
    /\ IsFinite(Number(At(lastDataRow(lines), FindIncludes(HeaderOf(lines), HintAll))))

\* C23 (as claimed): when no heading contains "total" but one contains "all",
\* the total ratio is read from the "all" column.
C23_AllIsFallbackForTotal ==
    got.done /\ AllColumnOnly(NonBlankLines(csv)) =>
        /\ got.value # Null
        /\ got.value.total =
              Number(At(lastDataRow(NonBlankLines(csv)),
                        FindIncludes(HeaderOf(NonBlankLines(csv)), HintAll)))

-----------------------------------------------------------------------------
(* GET of the macro route on FRED with the fallback to the next release day *)
(* The clock is read once per request: today and addDaysUTC(new Date(), i)  *)
(* fall on the same UTC day plus i.                                         *)

IMPORTANT_KEYWORDS ==
    {<<"n", "o", "n", "f", "a", "r", "m", " ", "p", "a", "y", "r", "o", "l", "l">>,
     <<"e", "m", "p", "l", "o", "y", "m", "e", "n", "t", " ", "s", "i", "t", "u", "a", "t", "i", "o", "n">>,
     <<"c", "o", "n", "s", "u", "m", "e", "r", " ", "p", "r", "i", "c", "e", " ", "i", "n", "d", "e", "x">>,
     <<"c", "p", "i">>,
     <<"c", "o", "r", "e", " ", "c", "p", "i">>,
     <<"p", "c", "e">>,
     <<"c", "o", "r", "e", " ", "p", "c", "e">>,
     <<"g", "d", "p">>,
     <<"g", "r", "o", "s", "s", " ", "d", "o", "m", "e", "s", "t", "i", "c", " ", "p", "r", "o", "d", "u", "c", "t">>,
     <<"f", "o", "m", "c">>,
     <<"i", "n", "t", "e", "r", "e", "s", "t", " ", "r", "a", "t", "e", " ", "d", "e", "c", "i", "s", "i", "o", "n">>,
     <<"f", "e", "d", " ", "f", "u", "n", "d", "s">>,
     <<"p", "r", "o", "d", "u", "c", "e", "r", " ", "p", "r", "i", "c", "e", " ", "i", "n", "d", "e", "x">>,
     <<"p", "p", "i">>,
     <<"c", "o", "r", "e", " ", "p", "p", "i">>,
     <<"r", "e", "t", "a", "i", "l", " ", "s", "a", "l", "e", "s">>,
     <<"i", "s", "m", " ", "m", "a", "n", "u", "f", "a", "c", "t", "u", "r", "i", "n", "g">>,
     <<"i", "s", "m", " ", "s", "e", "r", "v", "i", "c", "e", "s">>,
     <<"m", "i", "c", "h", "i", "g", "a", "n", " ", "s", "e", "n", "t", "i", "m", "e", "n", "t">>,
     <<"c", "o", "n", "s", "u", "m", "e", "r", " ", "s", "e", "n", "t", "i", "m", "e", "n", "t">>,
     <<"j", "o", "b", "l", "e", "s", "s", " ", "c", "l", "a", "i", "m", "s">>}

\* inferTier
inferTier(name) ==
    IF \E k \in IMPORTANT_KEYWORDS : Includes(ToLowerCase(name), k) THEN "T1" ELSE "T3"

\* "US release"
UsRelease ==
    <<"U", "S", " ", "r", "e", "l", "e", "a", "s", "e">>
\* "Consumer Price Index"
NameCpi ==
    <<"C", "o", "n", "s", "u", "m", "e", "r", " ", "P", "r", "i", "c", "e", " ", "I", "n", "d",
      "e", "x">>
\* "Employment Situation"
NameJobs ==
    <<"E", "m", "p", "l", "o", "y", "m", "e", "n", "t", " ", "S", "i", "t", "u", "a", "t", "i",
      "o", "n">>
\* "H.8 Assets and Liabilities"
NameH8 ==
    <<"H", ".", "8", " ", "A", "s", "s", "e", "t", "s", " ", "a", "n", "d", " ", "L", "i", "a",
      "b", "i", "l", "i", "t", "i", "e", "s">>

\* the order of localeCompare on the characters that occur in release names
Collation == <<" ", "(", ")", "-", ".">> \o Digits \o LowerCase

RECURSIVE ComesBefore(_, _)
ComesBefore(a, b) ==
    IF a = <<>> THEN b # <<>>
    ELSE IF b = <<>> THEN FALSE
    ELSE IF Head(a) = Head(b) THEN ComesBefore(Tail(a), Tail(b))
    ELSE PosIn(Collation, Head(a)) < PosIn(Collation, Head(b))

\* a.release.localeCompare(b.release) < 0
localeCompare(a, b) == ComesBefore(ToLowerCase(a.release.name), ToLowerCase(b.release.name))

\* rows.sort((a, b) => a.release.localeCompare(b.release)), a stable sort
RECURSIVE InsertRow(_, _)
InsertRow(sorted, row) ==
    IF sorted = <<>> THEN <<row>>
    ELSE IF localeCompare(row, Head(sorted)) THEN <<row>> \o sorted
    ELSE <<Head(sorted)>> \o InsertRow(Tail(sorted), row)
RECURSIVE SortRows(_)
SortRows(rows) ==
    IF rows = <<>> THEN <<>> ELSE InsertRow(SortRows(SubSeq(rows, 1, Len(rows) - 1)), rows[Len(rows)])

\* rel.name || "US release"
NameOf(rel) == IF Truthy2(Prop(rel, "name")) THEN Prop(rel, "name").v ELSE UsRelease

\* the row mapRows pushes: today's rows carry the time, rows of a later day
\* the date after the name
MacroRow(dateISO, rel, isToday) ==
    [timeUK |-> IF isToday THEN [at |-> "13:30Z", on |-> dateISO] ELSE <<"-">>,
     country |-> "US",
     release |-> [name |-> NameOf(rel), date |-> IF isToday THEN -1 ELSE dateISO],
     tier |-> inferTier(NameOf(rel))]

\* if (!rel) continue; if (tier === "T3") continue
Retained(dir, id) == id \in DOMAIN dir /\ inferTier(NameOf(dir[id])) # "T3"

RECURSIVE PushRows(_, _, _, _)
PushRows(dateISO, ids, dir, isToday) ==
    IF ids = <<>> THEN <<>>
    ELSE (IF Retained(dir, Head(ids)) THEN <<MacroRow(dateISO, dir[Head(ids)], isToday)>> ELSE <<>>)
             \o PushRows(dateISO, Tail(ids), dir, isToday)

mapRows(dateISO, ids, dir, isToday) == SortRows(PushRows(dateISO, ids, dir, isToday))

\* (json.x || []).filter / .map throws: json is null, x is truthy but no array,
\* or an element is null
ListThrows(json, key) ==
    \/ PropThrows(json)
    \/ Truthy2(Prop(json, key)) /\ Prop(json, key).t # "array"
    \/ /\ Prop(json, key).t = "array"
       /\ \E k \in 1..Len(Prop(json, key).v) : PropThrows(Prop(json, key).v[k])

\* json.x || []
ListOf(json, key) == IF Prop(json, key).t = "array" THEN Prop(json, key).v ELSE <<>>

\* getReleaseIdsForDate: .filter(d => d.date === isoDate).map(d => d.release_id)
ReleaseIds(json, isoDate) ==
    [k \in 1..Len(SelectSeq(ListOf(json, "release_dates"), LAMBDA d : Prop(d, "date") = JDate(isoDate))) |->
        Prop(SelectSeq(ListOf(json, "release_dates"), LAMBDA d : Prop(d, "date") = JDate(isoDate))[k],
             "release_id")]

\* getReleaseDirectory: new Map(releases.map(r => [r.id, r])), a later entry
\* replacing an earlier one with the same id
DirectoryOf(releases) ==
    [id \in {Prop(releases[k], "id") : k \in 1..Len(releases)} |->
        releases[MaxOf({k \in 1..Len(releases) : Prop(releases[k], "id") = id})]]

\* for (let i = 1; i <= 7; i++)
LastDay == 7

FredSource == "FRED"
FredFailure(error) == [items |-> <<>>, stale |-> TRUE, source |-> FredSource, error |-> error]
FredItems(items) == [items |-> items, stale |-> FALSE, source |-> FredSource]

\* the loop that breaks on the first day with rows, left without its break
NeverBreak(i, rows) == i < LastDay

\* the loop goes on to day i + 1: items.length === 0 after day i, and i < 7
QueryOn(i, rows) == rows = <<>> /\ i < LastDay

\* the releases and the release dates FRED can answer with
Release(id, name) == JObject([k \in {"id", "name"} |-> IF k = "id" THEN id ELSE JString(name)])
FredReleases == {Release(1, NameCpi), Release(2, NameH8), Release(3, <<>>), Release(4, NameJobs)}
ReleaseDate(day, id) ==
    JObject([k \in {"date", "release_id"} |-> IF k = "date" THEN JDate(day) ELSE id])
DirectoryDocuments ==
    {Keyed("releases", JArray(<<Release(4, NameJobs), Release(2, NameH8), Release(1, NameCpi),
                                Release(3, <<>>)>>)),
     Keyed("releases", JArray(<<Release(2, NameH8), Release(3, <<>>)>>)),
     Keyed("releases", JArray(<<Release(1, NameCpi), Null>>)),
     JObject(<<>>), Null}
DatesDocuments(day) ==
    {Keyed("release_dates", JArray(rows)) :
        rows \in RowsUpTo({ReleaseDate(day, 1), ReleaseDate(day, 2), ReleaseDate(day, 4),
                           ReleaseDate(day, 7), ReleaseDate(day + 1, 1)}, MaxRows)}
        \cup {Keyed("release_dates", JString(<<"n", "o">>)), JObject(<<>>), Null}

MacroRest == <<timer, failures, vix, putCall, aaii, stale, fredKey, got>>

\* GET answers with body
MacroRespond(body) ==
    /\ pc' = "done"
    /\ net' = "idle"
    /\ response' = [status |-> 200, body |-> body]

\* the catch block: the query in flight, if any, is noted as failed
MacroCatch(error) ==
    /\ MacroRespond(FredFailure(error))
    /\ log' = IF log = <<>> THEN log ELSE [log EXCEPT ![Len(log)].st = "failed"]
    /\ UNCHANGED <<idx, csv>>

\* getReleaseIdsForDate for day today + i is issued
MacroQuery(i) ==
    /\ pc' = "getReleaseIdsForDate"
    /\ idx' = i
    /\ net' = "sent"
    /\ UNCHANGED response

\* a request reaches the route; key is process.env.FRED_API_KEY
MacroGET ==
    /\ pc = "idle"
    /\ \E key \in BOOLEAN :
          IF ~key THEN MacroRespond(FredFailure("Missing FRED_API_KEY"))
          ELSE pc' = "getReleaseDirectory" /\ net' = "sent" /\ UNCHANGED response
    /\ UNCHANGED <<idx, log, csv, MacroRest>>

MacroInFlight == pc \in {"getReleaseDirectory", "getReleaseIdsForDate"}

\* fetch() rejects inside fetchFred
MacroFetchRejects ==
    /\ MacroInFlight
    /\ net = "sent"
    /\ MacroCatch("fetch failed")
    /\ UNCHANGED MacroRest

\* if (!res.ok) throw new Error(`HTTP ${res.status} ...`)
MacroFetchNotOk ==
    /\ MacroInFlight
    /\ net = "sent"
    /\ \E status \in AvStatuses \ {200} : MacroCatch(HttpError(status))
    /\ UNCHANGED MacroRest

\* the response headers arrive with an ok status
MacroFetchResolves ==
    /\ MacroInFlight
    /\ net = "sent"
    /\ net' = "reading"
    /\ UNCHANGED <<pc, idx, log, response, csv, MacroRest>>

\* res.json() rejects
MacroReadRejects ==
    /\ MacroInFlight
    /\ net = "reading"
    /\ MacroCatch("Unexpected token")
    /\ UNCHANGED MacroRest

\* the directory arrives: today's release dates are asked for
MacroDirectoryResolves ==
    /\ pc = "getReleaseDirectory"
    /\ net = "reading"
    /\ \E json \in DirectoryDocuments :
          IF ListThrows(json, "releases") THEN MacroCatch("TypeError")
          ELSE /\ csv' = DirectoryOf(ListOf(json, "releases"))
               /\ MacroQuery(0)
               /\ log' = <<[day |-> Today, st |-> "pending"]>>
    /\ UNCHANGED MacroRest

\* the state after the release dates of day today + idx gave rows
AfterDates(rows) ==
    IF QueryOn(idx, rows)
    THEN /\ MacroQuery(idx + 1)
         /\ log' = Append([log EXCEPT ![Len(log)].st = IF rows = <<>> THEN "no rows" ELSE "rows"],
                          [day |-> Today + idx + 1, st |-> "pending"])
    ELSE /\ MacroRespond(FredItems(rows))
         /\ log' = [log EXCEPT ![Len(log)].st = IF rows = <<>> THEN "no rows" ELSE "rows"]
         /\ UNCHANGED idx

\* the release dates of day today + idx arrive
MacroDatesResolve ==
    /\ pc = "getReleaseIdsForDate"
    /\ net = "reading"
    /\ \E json \in DatesDocuments(Today + idx) :
          IF ListThrows(json, "release_dates") THEN MacroCatch("TypeError")
          ELSE /\ AfterDates(mapRows(Today + idx, ReleaseIds(json, Today + idx), csv, idx = 0))
               /\ UNCHANGED csv
    /\ UNCHANGED MacroRest

NextMacro ==
    \/ MacroGET
    \/ MacroFetchRejects
    \/ MacroFetchNotOk
    \/ MacroFetchResolves
    \/ MacroReadRejects
    \/ MacroDirectoryResolves
    \/ MacroDatesResolve

SpecMacro == InitPcr /\ [][NextMacro]_vars

-----------------------------------------------------------------------------
(* Properties of the macro route on FRED *)

\* the day a row belongs to: today's rows carry it in timeUK, the rows of a
\* later day after the release name
RowDay(row) == IF row.release.date = -1 THEN row.timeUK.on ELSE row.release.date

\* the request ended in the catch block or before the first query
MacroFailed == pc = "done" /\ (log = <<>> \/ log[Len(log)].st = "failed")

-----------------------------------------------------------------------------
(* GET of the earnings route (FMP): today's calendar, then one profile      *)
(* request per US symbol under Promise.all.  Market caps are in millions.   *)

\* (x?.country || "US") === "US"
IsUS(x) == Or(Prop(x, "country"), JString(<<"U", "S">>)) = JString(<<"U", "S">>)

\* (raw ?? []).filter(...)
UsOf(raw) == SelectSeq(Coalesce(raw, JArray(<<>>)).v, IsUS)

\* raw is neither nullish nor an array: .filter is not a function
FilterThrows(raw) == ~IsNullish(raw) /\ raw.t # "array"

\* the own properties of a value: spreading null gives none
Fields(it) == IF it.t = "object" THEN DOMAIN it.v ELSE {}

\* { ...it, mcap }
WithMcap(it, mcap) ==
    JObject([k \in Fields(it) \cup {"mcap"} |->
                IF k = "mcap" THEN mcap ELSE it.v[k]])

\* prof?.[0]?.mktCap ?? prof?.[0]?.marketCap ?? null
McapOf(prof) ==
    Coalesce(Coalesce(Prop(First(prof), "mktCap"), Prop(First(prof), "marketCap")), Null)

\* a catch block that reports a market cap of zero
CatchAsZero(it) == WithMcap(it, Num(0))

\* catch { return { ...it, mcap: null } }
withMcapCatch(it) == WithMcap(it, Null)

\* (b.mcap ?? 0) - (a.mcap ?? 0) < 0: a sorts before b
SortKey(x) == Coalesce(Prop(x, "mcap"), Num(0)).v

\* enriched.sort(...): a stable sort by falling key
RECURSIVE InsertByMcap(_, _)
InsertByMcap(sorted, x) ==
    IF sorted = <<>> THEN <<x>>
    ELSE IF SortKey(x) > SortKey(Head(sorted)) THEN <<x>> \o sorted
    ELSE <<Head(sorted)>> \o InsertByMcap(Tail(sorted), x)
RECURSIVE SortByMcap(_)
SortByMcap(items) ==
    IF items = <<>> THEN <<>>
    ELSE InsertByMcap(SortByMcap(Tail(items)), Head(items))

\* enriched.slice(0, 8)
PickEnd == 8
Top(items) == SubSeq(items, 1, IF Len(items) < PickEnd THEN Len(items) ELSE PickEnd)

\* /before market/i.test(x?.time || "") ? "BMO" : /after market/i.test(...) ? "AMC" : "TBD"
TimeText(x) == IF Prop(x, "time").t = "str" THEN ToLowerCase(Prop(x, "time").v) ELSE <<>>
SessionFrom(x) ==
    IF Includes(TimeText(x), <<"b", "e", "f", "o", "r", "e", " ", "m", "a", "r", "k", "e", "t">>) THEN "BMO"
    ELSE IF Includes(TimeText(x), <<"a", "f", "t", "e", "r", " ", "m", "a", "r", "k", "e", "t">>) THEN "AMC"
    ELSE "TBD"

\* Intl.NumberFormat("en-US", { notation: "compact", maximumFractionDigits: 1 }).format(x.mcap)
\* .replace("G", "B"), of a number of millions
Compact(m) ==
    IF m >= 1000000 THEN [unit |-> "T", tenths |-> (m + 50000) \div 100000]
    ELSE IF m >= 1000 THEN [unit |-> "B", tenths |-> (m + 50) \div 100]
    ELSE [unit |-> "M", tenths |-> 10 * m]

Dash == JString(<<"-">>)

\* one element of pick
PickItem(x) ==
    [timeUK |-> IF Truthy2(Prop(x, "date")) THEN Prop(x, "date") ELSE Dash,
     symbol |-> Prop(x, "symbol"),
     name |-> Or(Prop(x, "company"), Prop(x, "symbol")),
     session |-> SessionFrom(x),
     mcap |-> IF Truthy2(Prop(x, "mcap")) THEN Compact(Prop(x, "mcap").v) ELSE Dash]

PickOf(enriched) == [k \in 1..Len(Top(enriched)) |-> PickItem(Top(enriched)[k])]

\* the rows of the calendar
Listed(symbol, fields, val) ==
    ObjectOf(fields \cup {"symbol"},
             [k \in fields \cup {"symbol"} |-> IF k = "symbol" THEN JString(<<symbol>>) ELSE val[k]])
RowAlpha ==
    Listed("A", {"company", "time", "date", "country"},
           [k \in {"company", "time", "date", "country"} |->
               CASE k = "company" -> JString(<<"A", "l", "p", "h", "a">>)
                 [] k = "time" -> JString(<<"B", "e", "f", "o", "r", "e", " ", "M", "a", "r", "k", "e", "t", " ", "O", "p", "e", "n">>)
                 [] k = "date" -> JDate(Today)
                 [] k = "country" -> JString(<<"U", "S">>)])
RowBravo == Listed("B", {"time"}, [k \in {"time"} |-> JString(<<"a", "f", "t", "e", "r", " ", "m", "a", "r", "k", "e", "t", " ", "c", "l", "o", "s", "e">>)])
RowCanada == Listed("C", {"country"}, [k \in {"country"} |-> JString(<<"C", "A">>)])
LongList == <<"1", "2", "3", "4", "5", "6", "7", "8", "9">>
CalendarOfNine == [k \in 1..Len(LongList) |-> Listed(LongList[k], {}, <<>>)]

EarningsDocuments ==
    {JArray(rows) : rows \in RowsUpTo({RowAlpha, RowBravo, RowCanada, Null}, MaxRows)}
        \cup {JArray(CalendarOfNine), Null, Keyed("Error Message", RateLimited)}

\* the profiles FMP can answer with
Profile(key, mcap) == JArray(<<Keyed(key, mcap)>>)
ProfilesOf(it) ==
    IF Prop(it, "symbol") \in {JString(<<s>>) : s \in Range(LongList)}
    THEN {Profile("mktCap", Num(100 * DigitVal(Prop(it, "symbol").v[1])))}
    ELSE {Profile("mktCap", Num(2500)), Profile("marketCap", Num(950)),
          Profile("mktCap", Num(0)), JArray(<<>>), Null}

\* the promise withMcap(it): pending, or fulfilled with the enriched item
Enriched(it, prof, failed) ==
    [st |-> "fulfilled", failed |-> failed, prof |-> prof,
     value |-> IF failed THEN withMcapCatch(it) ELSE WithMcap(it, McapOf(prof))]

\* us.map(withMcap): every call runs to its first await; on a null item
\* it.symbol throws at once and the catch block fulfils the promise
Launch(us) ==
    [k \in 1..Len(us) |-> IF PropThrows(us[k]) THEN Enriched(us[k], Null, TRUE) ELSE Pending]

EarningsRest == <<idx, timer, log, vix, putCall, aaii, stale, fredKey>>

EarningsRespond(items, isStale) ==
    /\ pc' = "done"
    /\ response' = [status |-> 200, body |-> [items |-> items, stale |-> isStale]]

\* the outer catch block, reached by the exception why
EarningsCatch(why) ==
    /\ net' = "idle"
    /\ failures' = failures \cup {why}
    /\ EarningsRespond(<<>>, TRUE)

\* the state once Promise.all has the promises: it resolves when none is
\* pending, and GET sorts, slices and answers
AfterAll(promises) ==
    /\ net' = promises
    /\ IF \A k \in 1..Len(promises) : promises[k].st = "fulfilled"
       THEN /\ got' = Result("enriched", SortByMcap(ValuesOf(promises)))
            /\ EarningsRespond(PickOf(SortByMcap(ValuesOf(promises))), FALSE)
       ELSE pc' = "withMcap" /\ UNCHANGED <<got, response>>

\* a request reaches the route
EarningsGET ==
    /\ pc = "idle"
    /\ pc' = "earnings"
    /\ net' = "sent"
    /\ UNCHANGED <<response, csv, got, failures, EarningsRest>>

\* fetch() of the calendar rejects
EarningsFetchRejects ==
    /\ pc = "earnings"
    /\ net = "sent"
    /\ EarningsCatch("network")
    /\ UNCHANGED <<csv, got, EarningsRest>>

\* fetch() of the calendar resolves, whatever the status
EarningsFetchResolves ==
    /\ pc = "earnings"
    /\ net = "sent"
    /\ net' = "reading"
    /\ UNCHANGED <<pc, response, csv, got, failures, EarningsRest>>

\* r.json() rejects
EarningsReadRejects ==
    /\ pc = "earnings"
    /\ net = "reading"
    /\ EarningsCatch("read")
    /\ UNCHANGED <<csv, got, EarningsRest>>

\* r.json() resolves with raw: the profile requests of all US symbols are
\* issued, and Promise.all awaited
EarningsReadResolves ==
    /\ pc = "earnings"
    /\ net = "reading"
    /\ \E raw \in EarningsDocuments :
          IF FilterThrows(raw)
          THEN EarningsCatch("TypeError") /\ UNCHANGED <<csv, got>>
          ELSE csv' = UsOf(raw) /\ AfterAll(Launch(UsOf(raw))) /\ UNCHANGED failures
    /\ UNCHANGED EarningsRest

\* the profile request of symbol k fails: fetch() or pr.json() rejects
ProfileRejects ==
    /\ pc = "withMcap"
    /\ \E k \in 1..Len(net) :
          /\ net[k].st = "pending"
          /\ AfterAll([net EXCEPT ![k] = Enriched(csv[k], Null, TRUE)])
    /\ UNCHANGED <<csv, failures, EarningsRest>>

\* the profile of symbol k arrives
ProfileResolves ==
    /\ pc = "withMcap"
    /\ \E k \in 1..Len(net) :
          /\ net[k].st = "pending"
          /\ \E prof \in ProfilesOf(csv[k]) :
                AfterAll([net EXCEPT ![k] = Enriched(csv[k], prof, FALSE)])
    /\ UNCHANGED <<csv, failures, EarningsRest>>

NextEarnings ==
    \/ EarningsGET
    \/ EarningsFetchRejects
    \/ EarningsFetchResolves
    \/ EarningsReadRejects
    \/ EarningsReadResolves
    \/ ProfileRejects
    \/ ProfileResolves

SpecEarnings == InitPcr /\ [][NextEarnings]_vars

-----------------------------------------------------------------------------
(* Properties of the earnings route *)

\* the profile requests are under way or over
FannedOut == pc = "withMcap" \/ (pc = "done" /\ failures = {})

-----------------------------------------------------------------------------
(* GET of the macro route on EconDB (api_key variant): one try block about  *)
(* the fetch and the mapping, the answer built after it                     *)

\* String.prototype.toUpperCase
UpperChar(c) == IF PosIn(LowerCase, c) = 0 THEN c ELSE UpperCase[PosIn(LowerCase, c)]
ToUpperCase(s) == [k \in 1..Len(s) |-> UpperChar(s[k])]

\* String(n) of a whole number that is not negative
RECURSIVE DigitsOf(_)
DigitsOf(n) == IF n < 10 THEN <<Digits[n + 1]>> ELSE Append(DigitsOf(n \div 10), Digits[(n % 10) + 1])
StringOf(val) == IF val.t = "str" THEN val.v ELSE DigitsOf(val.v \div 1000)

\* fmt: null for null, undefined and blank text, else the trimmed text
fmt(val) ==
    IF IsNullish(val) THEN Null
    ELSE IF Trim(StringOf(val)) = <<>> THEN Null
    ELSE JString(Trim(StringOf(val)))

\* toTier
toTier(importance) ==
    IF IsNullish(importance) THEN Null
    ELSE IF importance.v >= 3000 THEN JString(<<"T", "1">>)
    ELSE IF importance.v = 2000 THEN JString(<<"T", "2">>)
    ELSE JString(<<"T", "3">>)

\* "HH:MM"
IsClock(s) ==
    /\ Len(s) = 5
    /\ s[3] = ":"
    /\ \A k \in {1, 2, 4, 5} : IsDigit(s[k])

\* toUKClockLabel on a winter date, when London is on UTC: null without a
\* time or when timeUTC.split throws, "Invalid Date" for a time that is no
\* clock reading
toUKClockLabel(dateISO, timeUTC) ==
    IF ~Truthy2(timeUTC) THEN Null
    ELSE IF timeUTC.t # "str" THEN Null
    ELSE IF IsClock(timeUTC.v) /\ dateISO.t = "date" /\ dateISO.v >= 0 THEN timeUTC
    ELSE JString(<<"I", "n", "v", "a", "l", "i", "d", " ", "D", "a", "t", "e">>)

\* (x.country || '').toUpperCase() === 'US'
CountryIsUS(x) == ToUpperCase(Or(Prop(x, "country"), JString(<<>>)).v) = <<"U", "S">>

\* the filter throws: x is null, or x.country is truthy and no string
CountryThrows(x) ==
    PropThrows(x) \/ (Truthy2(Prop(x, "country")) /\ Prop(x, "country").t # "str")

\* one element of rows
EconRow(x) ==
    [time |-> toUKClockLabel(Prop(x, "date"), Coalesce(Prop(x, "time"), Null)),
     country |-> "US",
     release |-> Prop(x, "event"),
     actual |-> fmt(Prop(x, "actual")),
     previous |-> fmt(Prop(x, "previous")),
     consensus |-> fmt(Prop(x, "consensus")),
     forecast |-> fmt(Prop(x, "forecast")),
     tier |-> toTier(Prop(x, "importance"))]

\* tierRank
tierRank(t) ==
    IF t = JString(<<"T", "1">>) THEN 0
    ELSE IF t = JString(<<"T", "2">>) THEN 1
    ELSE IF t = JString(<<"T", "3">>) THEN 2
    ELSE 3

\* the comparator reaches a.release.localeCompare(b.release)
ByRelease(a, b) == tierRank(a.tier) = tierRank(b.tier) /\ ~Truthy2(a.time) /\ ~Truthy2(b.time)

\* String(x) of the argument of localeCompare
ReleaseText(release) ==
    IF release.t = "str" THEN release.v ELSE <<"u", "n", "d", "e", "f", "i", "n", "e", "d">>

\* the comparator returns a negative number: a sorts before b.  Where only
\* one of the two releases is a string, the call that does not throw is the
\* one made on that string
EconBefore(a, b) ==
    IF tierRank(a.tier) # tierRank(b.tier) THEN tierRank(a.tier) < tierRank(b.tier)
    ELSE IF Truthy2(a.time) /\ Truthy2(b.time) THEN ComesBefore(a.time.v, b.time.v)
    ELSE IF Truthy2(a.time) THEN TRUE
    ELSE IF Truthy2(b.time) THEN FALSE
    ELSE IF a.release.t = "str"
         THEN ComesBefore(ToLowerCase(a.release.v), ToLowerCase(ReleaseText(b.release)))
    ELSE IF b.release.t = "str"
         THEN ~ComesBefore(ToLowerCase(b.release.v), ToLowerCase(ReleaseText(a.release)))
    ELSE FALSE

RECURSIVE InsertEcon(_, _)
InsertEcon(sorted, row) ==
    IF sorted = <<>> THEN <<row>>
    ELSE IF EconBefore(row, Head(sorted)) THEN <<row>> \o sorted
    ELSE <<Head(sorted)>> \o InsertEcon(Tail(sorted), row)
RECURSIVE SortEcon(_)
SortEcon(rows) ==
    IF rows = <<>> THEN <<>>
    ELSE InsertEcon(SortEcon(SubSeq(rows, 1, Len(rows) - 1)), rows[Len(rows)])

\* whether rows.sort throws a TypeError: the comparator calls
\* a.release.localeCompare on a release that is no string.  Which row of a
\* pair the engine passes as a is not fixed by the language: when only one
\* row of a pair lacks its release both outcomes are possible
SortMayThrow(rows) ==
    \E i, j \in 1..Len(rows) :
        i # j /\ ByRelease(rows[i], rows[j]) /\ rows[i].release.t # "str"
SortMustThrow(rows) ==
    /\ SortMayThrow(rows)
    /\ \A i, j \in 1..Len(rows) :
          i # j /\ ByRelease(rows[i], rows[j]) =>
              rows[i].release.t # "str" /\ rows[j].release.t # "str"
SortOutcomes(rows) ==
    IF SortMustThrow(rows) THEN {"throws"}
    ELSE IF SortMayThrow(rows) THEN {"throws", "sorts"}
    ELSE {"sorts"}

\* (data?.data ?? []).filter throws
EconThrows(data) ==
    \/ ~IsNullish(Prop(data, "data")) /\ Prop(data, "data").t # "array"
    \/ /\ Prop(data, "data").t = "array"
       /\ \E k \in 1..Len(Prop(data, "data").v) : CountryThrows(Prop(data, "data").v[k])

EconRows(data) ==
    [k \in 1..Len(SelectSeq(ListOf(data, "data"), CountryIsUS)) |->
        EconRow(SelectSeq(ListOf(data, "data"), CountryIsUS)[k])]

\* the answer with stale fixed at false, whatever the error
StaleApart(items, error) ==
    IF Truthy2(error)
    THEN [items |-> items, stale |-> FALSE, source |-> "EconDB", error |-> error]
    ELSE [items |-> items, stale |-> FALSE, source |-> "EconDB"]

\* NextResponse.json({ items, stale: !!error, source, error: error || undefined }):
\* a key whose value is undefined is left out of the JSON text
EconJson(items, error) ==
    IF Truthy2(error)
    THEN [items |-> items, stale |-> TRUE, source |-> "EconDB", error |-> error]
    ELSE [items |-> items, stale |-> FALSE, source |-> "EconDB"]

\* error = e?.message || 'calendar fetch failed'
EconMessage(message) == Or(message, JString(<<"c", "a", "l", "e", "n", "d", "a", "r", " ", "f", "e", "t", "c", "h", " ", "f", "a", "i", "l", "e", "d">>))

\* the rows EconDB can send
EconCpi ==
    JObject([k \in {"date", "country", "event", "actual", "previous", "importance", "time"} |->
        CASE k = "date" -> JDate(Today)
          [] k = "country" -> JString(<<"U", "S">>)
          [] k = "event" -> JString(<<"C", "P", "I">>)
          [] k = "actual" -> JNumber(Num(3000))
          [] k = "previous" -> JString(<<" ", "3", ".", "2", " ">>)
          [] k = "importance" -> Num(3000)
          [] k = "time" -> JString(<<"1", "3", ":", "3", "0">>)])
EconPmi ==
    JObject([k \in {"date", "country", "event", "actual", "importance"} |->
        CASE k = "date" -> JDate(Today)
          [] k = "country" -> JString(<<"u", "s">>)
          [] k = "event" -> JString(<<"P", "M", "I">>)
          [] k = "actual" -> JString(<<" ">>)
          [] k = "importance" -> Num(2000)])
EconUnnamed ==
    JObject([k \in {"date", "country", "importance", "time"} |->
        CASE k = "date" -> JDate(Today)
          [] k = "country" -> JString(<<"U", "S">>)
          [] k = "importance" -> Num(2000)
          [] k = "time" -> Null])
EconGerman ==
    JObject([k \in {"date", "country", "event"} |->
        CASE k = "date" -> JDate(Today)
          [] k = "country" -> JString(<<"D", "E">>)
          [] k = "event" -> JString(<<"I", "f", "o">>)])
EconItems == {EconCpi, EconPmi, EconUnnamed, EconGerman, Null}
EconDocuments ==
    {Keyed("data", JArray(rows)) : rows \in RowsUpTo(EconItems, MaxRows)}
        \cup {Keyed("data", JString(<<"n", "o">>)), JObject(<<>>), Null}

\* the messages a rejected fetch or res.json() can carry
EconMessages == {JString(<<"f", "e", "t", "c", "h", " ", "f", "a", "i", "l", "e", "d">>), JString(<<>>), Undefined}

EconRest == <<idx, timer, log, vix, putCall, aaii, stale, fredKey, got>>

\* the answer after the try block, items pushed or not, error set or not
EconRespond(items, error) ==
    /\ pc' = "done"
    /\ net' = "idle"
    /\ response' = [status |-> 200, body |-> EconJson(items, error)]

\* the catch block, then the answer
EconCatch(why, message) ==
    /\ failures' = failures \cup {why}
    /\ EconRespond(<<>>, EconMessage(message))

\* a request reaches the route; key is process.env.ECONDB_API_KEY
EconGET ==
    /\ pc = "idle"
    /\ \E key \in BOOLEAN :
          IF ~key THEN EconCatch("key", JString(<<"M", "i", "s", "s", "i", "n", "g", " ", "E", "C", "O", "N", "D", "B", "_", "A", "P", "I", "_", "K", "E", "Y">>))
          ELSE pc' = "econdb" /\ net' = "sent" /\ UNCHANGED <<response, failures>>
    /\ UNCHANGED <<csv, EconRest>>

\* fetch() rejects
EconFetchRejects ==
    /\ pc = "econdb"
    /\ net = "sent"
    /\ \E message \in EconMessages : EconCatch("network", message)
    /\ UNCHANGED <<csv, EconRest>>

\* if (!res.ok) throw new Error(`EconDB HTTP ${res.status}`)
EconFetchNotOk ==
    /\ pc = "econdb"
    /\ net = "sent"
    /\ \E status \in AvStatuses \ {200} : EconCatch("status", HttpError(status))
    /\ UNCHANGED <<csv, EconRest>>

\* the response headers arrive with an ok status
EconFetchResolves ==
    /\ pc = "econdb"
    /\ net = "sent"
    /\ net' = "reading"
    /\ UNCHANGED <<pc, response, failures, csv, EconRest>>

\* res.json() rejects
EconReadRejects ==
    /\ pc = "econdb"
    /\ net = "reading"
    /\ \E message \in EconMessages : EconCatch("read", message)
    /\ UNCHANGED <<csv, EconRest>>

\* res.json() resolves with data
EconReadResolves ==
    /\ pc = "econdb"
    /\ net = "reading"
    /\ \E data \in EconDocuments :
          /\ csv' = data
          /\ IF EconThrows(data) THEN EconCatch("TypeError", JString(<<"n", "o", "t", " ", "a", " ", "f", "u", "n", "c", "t", "i", "o", "n">>))
             ELSE \E outcome \in SortOutcomes(EconRows(data)) :
                     IF outcome = "throws" THEN EconCatch("TypeError", JString(<<"n", "o", "t", " ", "a", " ", "f", "u", "n", "c", "t", "i", "o", "n">>))
                     ELSE EconRespond(SortEcon(EconRows(data)), Null) /\ UNCHANGED failures
    /\ UNCHANGED EconRest

NextEcon ==
    \/ EconGET
    \/ EconFetchRejects
    \/ EconFetchNotOk
    \/ EconFetchResolves
    \/ EconReadRejects
    \/ EconReadResolves

-----------------------------------------------------------------------------
(* GET of the earnings-yday route that asks Alpha Vantage for CSV.  The     *)
(* reply is a text: lines of characters, or the one-line text of a JSON     *)
(* document.                                                                *)

CsvText(lines) == [kind |-> "lines", lines |-> lines]
JsonText(json, plain) == [kind |-> "json", json |-> json, plain |-> plain]

\* the phrases of looksLikePlainError
PlainPhrases ==
    {<<"t", "h", "a", "n", "k", " ", "y", "o", "u", " ", "f", "o", "r", " ", "u", "s", "i", "n", "g", " ", "a", "l", "p", "h", "a", " ", "v", "a", "n", "t", "a", "g", "e">>,
     <<"s", "t", "a", "n", "d", "a", "r", "d", " ", "a", "p", "i", " ", "c", "a", "l", "l", " ", "f", "r", "e", "q", "u", "e", "n", "c", "y">>,
     <<"i", "n", "v", "a", "l", "i", "d", " ", "a", "p", "i", " ", "c", "a", "l", "l">>,
     <<"e", "r", "r", "o", "r">>}

\* looksLikePlainError; a JSON text is given with the note whether it holds
\* one of the phrases
looksLikePlainError(text) ==
    IF text.kind = "json" THEN text.plain
    ELSE \E k \in 1..Len(text.lines), p \in PlainPhrases : Includes(ToLowerCase(text.lines[k]), p)

\* one line of parseCsv: the cells between commas that are outside quotes,
\* "" inside quotes standing for one quote
RECURSIVE CsvCells(_, _, _)
CsvCells(s, cur, inQ) ==
    IF s = <<>> THEN <<cur>>
    ELSE IF Head(s) = "\""
         THEN IF inQ /\ Len(s) >= 2 /\ s[2] = "\""
              THEN CsvCells(Tail(Tail(s)), Append(cur, "\""), inQ)
              ELSE CsvCells(Tail(s), cur, ~inQ)
    ELSE IF Head(s) = "," /\ ~inQ THEN <<cur>> \o CsvCells(Tail(s), <<>>, inQ)
    ELSE CsvCells(Tail(s), Append(cur, Head(s)), inQ)

\* text.replace(/\r\n/g, "\n").trim() as lines: blank lines at either end
\* are gone
RECURSIVE DropBlankEnds(_)
DropBlankEnds(lines) ==
    IF lines = <<>> THEN lines
    ELSE IF Trim(Head(lines)) = <<>> THEN DropBlankEnds(Tail(lines))
    ELSE IF Trim(lines[Len(lines)]) = <<>> THEN DropBlankEnds(SubSeq(lines, 1, Len(lines) - 1))
    ELSE lines

\* the properties GET reads from a row, each with its spelling as a header
RowKeys ==
    {"symbol",
     "name",
     "reportDate",
     "report_date",
     "epsReported",
     "eps_reported",
     "epsEstimated",
     "eps_estimated",
     "surprisePercentage",
     "surprise_percentage"}
Spelling(key) ==
    CASE key = "symbol" -> <<"s", "y", "m", "b", "o", "l">>
      [] key = "name" -> <<"n", "a", "m", "e">>
      [] key = "reportDate" -> <<"r", "e", "p", "o", "r", "t", "D", "a", "t", "e">>
      [] key = "report_date" -> <<"r", "e", "p", "o", "r", "t", "_", "d", "a", "t", "e">>
      [] key = "epsReported" -> <<"e", "p", "s", "R", "e", "p", "o", "r", "t", "e", "d">>
      [] key = "eps_reported" -> <<"e", "p", "s", "_", "r", "e", "p", "o", "r", "t", "e", "d">>
      [] key = "epsEstimated" -> <<"e", "p", "s", "E", "s", "t", "i", "m", "a", "t", "e", "d">>
      [] key = "eps_estimated" -> <<"e", "p", "s", "_", "e", "s", "t", "i", "m", "a", "t", "e", "d">>
      [] key = "surprisePercentage" -> <<"s", "u", "r", "p", "r", "i", "s", "e", "P", "e", "r", "c", "e", "n", "t", "a", "g", "e">>
      [] key = "surprise_percentage" -> <<"s", "u", "r", "p", "r", "i", "s", "e", "_", "p", "e", "r", "c", "e", "n", "t", "a", "g", "e">>

\* obj[h] = (row[idx] ?? "").trim() for every header, a later column of the
\* same name replacing an earlier one; of the object, the properties GET
\* reads are kept
LastColumn(headers, h) == MaxOf({k \in 1..Len(headers) : headers[k] = h})
CsvObject(headers, row) ==
    JObject([key \in {k \in RowKeys : Spelling(k) \in Range(headers)} |->
        JString(IF LastColumn(headers, Spelling(key)) <= Len(row)
                THEN Trim(row[LastColumn(headers, Spelling(key))])
                ELSE <<>>)])

CsvRowsOf(lines) ==
    [k \in 1..(Len(lines) - 1) |->
        CsvObject(TrimAll(SplitOn(lines[1], {","}, <<>>)), CsvCells(lines[k + 1], <<>>, FALSE))]

\* parseCsv; the one-line text of a JSON document has no line after its first
parseCsv(text) ==
    IF text.kind = "json" THEN <<>>
    ELSE IF DropBlankEnds(text.lines) = <<>> THEN <<>>
    ELSE CsvRowsOf(DropBlankEnds(text.lines))

\* rows: nothing for a plain error, else the CSV rows, else the array found
\* in the JSON document
RowsIn(text) ==
    IF looksLikePlainError(text) THEN <<>>
    ELSE IF parseCsv(text) # <<>> THEN parseCsv(text)
    ELSE IF text.kind = "json" THEN ArrayIn(text.json)
    ELSE <<>>

\* new Date(dateStr) as the UTC day it denotes, -1 for an invalid date; of
\* texts, the dates "2024-01-DD" are read
IsoDay(s) ==
    IF /\ Len(s) = 10
       /\ SubSeq(s, 1, 8) = <<"2", "0", "2", "4", "-", "0", "1", "-">>
       /\ IsDigit(s[9]) /\ IsDigit(s[10])
       /\ DigitsValue(SubSeq(s, 9, 10)) \in 1..31
    THEN 19722 + DigitsValue(SubSeq(s, 9, 10))
    ELSE -1
DayDenoted(dateStr) ==
    IF dateStr.t = "date" THEN dateStr.v
    ELSE IF dateStr.t = "str" THEN IsoDay(dateStr.v)
    ELSE -1

\* Math.max(1, Number(urlIn.searchParams.get("daysBack") ?? "1"))
daysBackOf(param) ==
    IF ~IsFinite(NumberOf(Coalesce(param, JString(<<"1">>)))) THEN NaN
    ELSE IF NumberOf(Coalesce(param, JString(<<"1">>))).v < 1000 THEN Num(1000)
    ELSE NumberOf(Coalesce(param, JString(<<"1">>)))

\* isNdaysAgoISO, daysBack at least 1 or NaN
isNdaysAgoISO(dateStr, daysBack) ==
    /\ Truthy2(dateStr)
    /\ DayDenoted(dateStr) >= 0
    /\ IsFinite(daysBack)
    /\ DayDenoted(dateStr) = Today - (daysBack.v \div 1000)

\* a ?? b on the properties of a row
Either(r, a, b) == Coalesce(Prop(r, a), Prop(r, b))

\* (x ?? "").trim() || null
TrimmedOrNull(x) ==
    IF Trim(Coalesce(x, JString(<<>>)).v) = <<>> THEN Null
    ELSE JString(Trim(Coalesce(x, JString(<<>>)).v))

\* the surprise: the percentage sent, else the one computed from the two EPS
CsvSurprise(sent, epsAct, epsEst) ==
    IF sent = Null /\ epsAct # Null /\ epsEst # Null /\ epsEst.v # 0
    THEN SurpriseOf(epsAct, epsEst) ELSE sent

\* one element of mapped
CsvItem(r) ==
    [time |-> tagSessionHint(Prop(r, "name")),
     symbol |-> TrimmedOrNull(Prop(r, "symbol")),
     companyName |-> TrimmedOrNull(Prop(r, "name")),
     epsActual |-> toNum(Either(r, "epsReported", "eps_reported")),
     epsEstimate |-> toNum(Either(r, "epsEstimated", "eps_estimated")),
     surprisePct |-> CsvSurprise(toNum(Either(r, "surprisePercentage", "surprise_percentage")),
                                 toNum(Either(r, "epsReported", "eps_reported")),
                                 toNum(Either(r, "epsEstimated", "eps_estimated")))]

KeptRows(rows, daysBack) ==
    SelectSeq(rows, LAMBDA r : isNdaysAgoISO(Either(r, "reportDate", "report_date"), daysBack))

\* the filter reads a property of null, or the map calls toLowerCase or trim
\* on a value that is no string
CsvMappingThrows(rows, daysBack) ==
    \/ \E k \in 1..Len(rows) : PropThrows(rows[k])
    \/ \E k \in 1..Len(KeptRows(rows, daysBack)) :
          \/ HintThrows(Prop(KeptRows(rows, daysBack)[k], "name"))
          \/ \E f \in {"symbol", "name"} :
                /\ ~IsNullish(Prop(KeptRows(rows, daysBack)[k], f))
                /\ Prop(KeptRows(rows, daysBack)[k], f).t # "str"

\* errorMsg
errorMsg(text) ==
    IF looksLikePlainError(text) THEN JString(<<"A", "l", "p", "h", "a", " ", "V", "a", "n", "t", "a", "g", "e", " ", "n", "o", "t", "e", "/", "l", "i", "m", "i", "t", " ", "o", "r", " ", "n", "o", "n", "-", "C", "S", "V", " ", "r", "e", "s", "p", "o", "n", "s", "e">>)
    ELSE IF Len(RowsIn(text)) = 0 THEN JString(<<"N", "o", " ", "r", "o", "w", "s", " ", "p", "a", "r", "s", "e", "d", " ", "(", "C", "S", "V", "/", "J", "S", "O", "N", " ", "e", "m", "p", "t", "y", " ", "o", "r", " ", "h", "o", "r", "i", "z", "o", "n", " ", "t", "o", "o", " ", "s", "h", "o", "r", "t", ")">>)
    ELSE Undefined

\* { items: mapped, stale: !!errorMsg || mapped.length === 0, source, ...(errorMsg ? { error } : {}) }
CsvJson(mapped, error) ==
    IF Truthy2(error)
    THEN [items |-> mapped, stale |-> TRUE, source |-> AlphaVantage, error |-> error]
    ELSE [items |-> mapped, stale |-> Len(mapped) = 0, source |-> AlphaVantage]

\* the answer to ?raw=1
RawJson(text) ==
    [rawCount |-> Len(RowsIn(text)),
     example |-> IF RowsIn(text) = <<>> THEN Null ELSE RowsIn(text)[1],
     note |-> IF looksLikePlainError(text) THEN JString(<<"A", "V", " ", "n", "o", "t", "e", "/", "l", "i", "m", "i", "t", "/", "p", "l", "a", "i", "n", " ", "t", "e", "x", "t">>) ELSE Null]

\* what GET returns once the text is read
AfterCsvText(text, daysBack, wantRaw) ==
    IF wantRaw THEN RawJson(text)
    ELSE IF CsvMappingThrows(RowsIn(text), daysBack) THEN Failure(JString(<<"T", "y", "p", "e", "E", "r", "r", "o", "r">>))
    ELSE CsvJson([k \in 1..Len(KeptRows(RowsIn(text), daysBack)) |->
                     CsvItem(KeptRows(RowsIn(text), daysBack)[k])],
                 errorMsg(text))

\* 'symbol,name,reportDate,epsReported,epsEstimated'
HdrCalendar ==
    <<"s", "y", "m", "b", "o", "l", ",", "n", "a", "m", "e", ",", "r", "e", "p", "o", "r", "t",
      "D", "a", "t", "e", ",", "e", "p", "s", "R", "e", "p", "o", "r", "t", "e", "d", ",", "e",
      "p", "s", "E", "s", "t", "i", "m", "a", "t", "e", "d">>
\* 'ACME,"Acme, Inc.",2024-01-09,1.2,1.0'
CalAcme ==
    <<"A", "C", "M", "E", ",", "\"", "A", "c", "m", "e", ",", " ", "I", "n", "c", ".", "\"",
      ",", "2", "0", "2", "4", "-", "0", "1", "-", "0", "9", ",", "1", ".", "2", ",", "1", ".",
      "0">>
\* 'BETA,Beta pre-market,2024-01-08,,'
CalBeta ==
    <<"B", "E", "T", "A", ",", "B", "e", "t", "a", " ", "p", "r", "e", "-", "m", "a", "r", "k",
      "e", "t", ",", "2", "0", "2", "4", "-", "0", "1", "-", "0", "8", ",", ",">>
\* 'TERR,Terror Corp,2024-01-09,2,2'
CalTerror ==
    <<"T", "E", "R", "R", ",", "T", "e", "r", "r", "o", "r", " ", "C", "o", "r", "p", ",", "2",
      "0", "2", "4", "-", "0", "1", "-", "0", "9", ",", "2", ",", "2">>
\* 'Thank you for using Alpha Vantage! Our standard API call frequency is 25 requests per day.'
PlainNote ==
    <<"T", "h", "a", "n", "k", " ", "y", "o", "u", " ", "f", "o", "r", " ", "u", "s", "i", "n",
      "g", " ", "A", "l", "p", "h", "a", " ", "V", "a", "n", "t", "a", "g", "e", "!", " ", "O",
      "u", "r", " ", "s", "t", "a", "n", "d", "a", "r", "d", " ", "A", "P", "I", " ", "c", "a",
      "l", "l", " ", "f", "r", "e", "q", "u", "e", "n", "c", "y", " ", "i", "s", " ", "2", "5",
      " ", "r", "e", "q", "u", "e", "s", "t", "s", " ", "p", "e", "r", " ", "d", "a", "y", ".">>

CalendarTexts ==
    {CsvText(b) : b \in Bodies({HdrCalendar}, {CalAcme, CalBeta, CalTerror, Blank})}
        \cup {CsvText(<<>>), CsvText(<<PlainNote>>)}
        \cup {JsonText(Keyed("earningsCalendar", JArray(rows)), FALSE) :
                  rows \in RowsUpTo({RowBeat, RowSnake, RowNumericName, RowNull}, 1)}
        \cup {JsonText(Keyed("Note", RateLimited), FALSE),
              JsonText(Keyed("Error Message", RateLimited), TRUE)}

\* the daysBack parameters of a request: none, "2", "0", "x"
DaysBackParams == {Undefined, JString(<<"2">>), JString(<<"0">>), JString(<<"x">>)}

CsvRest == <<idx, timer, log, vix, putCall, aaii, stale, fredKey>>

CsvEnds(body) ==
    /\ pc' = "done"
    /\ net' = "idle"
    /\ response' = [status |-> 200, body |-> body]

\* a request reaches the route with its parameters; key is
\* process.env.ALPHA_VANTAGE_KEY
CsvGET ==
    /\ pc = "idle"
    /\ \E key \in BOOLEAN, param \in DaysBackParams, wantRaw \in BOOLEAN :
          /\ got' = [done |-> FALSE, fn |-> "earnings-yday",
                     value |-> [daysBack |-> daysBackOf(param), wantRaw |-> wantRaw]]
          /\ IF ~key THEN CsvEnds(Failure(JString(<<"M", "i", "s", "s", "i", "n", "g", " ", "A", "L", "P", "H", "A", "_", "V", "A", "N", "T", "A", "G", "E", "_", "K", "E", "Y">>)))
             ELSE pc' = "csv" /\ net' = "sent" /\ UNCHANGED response
    /\ UNCHANGED <<csv, failures, CsvRest>>

\* fetch() rejects
CsvFetchRejects ==
    /\ pc = "csv"
    /\ net = "sent"
    /\ CsvEnds(Failure(JString(<<"f", "e", "t", "c", "h", " ", "f", "a", "i", "l", "e", "d">>)))
    /\ failures' = failures \cup {"network"}
    /\ UNCHANGED <<csv, got, CsvRest>>

\* fetch() resolves, whatever the status
CsvFetchResolves ==
    /\ pc = "csv"
    /\ net = "sent"
    /\ net' = "reading"
    /\ UNCHANGED <<pc, response, csv, got, failures, CsvRest>>

\* res.text() rejects
CsvReadRejects ==
    /\ pc = "csv"
    /\ net = "reading"
    /\ CsvEnds(Failure(JString(<<"r", "e", "a", "d", " ", "f", "a", "i", "l", "e", "d">>)))
    /\ failures' = failures \cup {"read"}
    /\ UNCHANGED <<csv, got, CsvRest>>

\* res.text() resolves
CsvReadResolves ==
    /\ pc = "csv"
    /\ net = "reading"
    /\ \E text \in CalendarTexts :
          /\ csv' = text
          /\ CsvEnds(AfterCsvText(text, got.value.daysBack, got.value.wantRaw))
    /\ UNCHANGED <<got, failures, CsvRest>>

NextCsv ==
    \/ CsvGET
    \/ CsvFetchRejects
    \/ CsvFetchResolves
    \/ CsvReadRejects
    \/ CsvReadResolves

-----------------------------------------------------------------------------
(* The three routes that answer with an error key, side by side: a request  *)
(* reaches one of them                                                      *)

NextWithError == Next \/ NextEcon \/ NextCsv

SpecWithError == Init /\ [][NextWithError]_vars

\* a route has answered with a JSON body
HasAnswered == pc = "done" /\ "body" \in DOMAIN response
HasError == "error" \in DOMAIN response.body
FromSnapshot == "vix" \in DOMAIN response.body
FromEconDB == "source" \in DOMAIN response.body /\ response.body.source = "EconDB"
FromCsvYday ==
    /\ "source" \in DOMAIN response.body
    /\ response.body.source = AlphaVantage

\* C26: in each of the three routes, a body with the error key has
\* stale = true: the snapshot has the key only when vix, putCall and aaii
\* all failed, the EconDB route has stale exactly when it has the key, and
\* the CSV earnings-yday route has stale exactly when it has the key or no
\* item.
C26_ErrorImpliesStale ==
    HasAnswered =>
        /\ HasError => response.body.stale = TRUE
        /\ FromSnapshot /\ HasError => Cardinality(Undetermined(response.body)) = 3
        /\ FromEconDB => (response.body.stale <=> HasError)
        /\ FromCsvYday => (response.body.stale <=> (HasError \/ Len(response.body.items) = 0))

\* C26 witness: the CSV route read a calendar whose only row is that of
\* "Terror Corp" and answered with the error key and stale = true
C26_Witness ==
    /\ HasAnswered
    /\ FromCsvYday
    /\ HasError
    /\ response.body.stale = TRUE
    /\ csv = CsvText(<<HdrCalendar, CalTerror>>)

-----------------------------------------------------------------------------
(* getVIX and the cells it reads *)

\* the Close cell of a line is the text of a number
HasClose(line) == IsNumeral(At(splitRow(line), CloseColumn))

\* the numbers written in the Close cells of the data rows Stooq can send
ClosesOf(body) ==
    {Number(At(splitRow(body[i]), CloseColumn)) : i \in {k \in 2..Len(body) : HasClose(body[k])}}
NumericCloses == UNION {ClosesOf(body) : body \in StooqBodies}

\* C27 (as claimed): when getVIX returns the value it took from Stooq, that
\* value is the number written in the Close cell of a data row: a row whose
\* Close cell is empty never gives vix = 0, the chain goes on to Yahoo.
C27_VixFromNumericCell ==
    Finished("getVIX") /\ Answered("getVIX") = Stooq => vix \in NumericCloses

-----------------------------------------------------------------------------
(* getAAII and its two copies of aaii.csv *)

\* getAAII went on from the local file to the copy served over HTTP
TriedPublicHttp == \E k \in 1..Len(log) : log[k].chain = "getAAII" /\ log[k].src = PublicHttp

\* C28 (as claimed): getAAII returns a record with bull and bear both null
\* only after it went on from the local aaii.csv to the HTTP copy: a local
\* file that yields no usable value is never the one that answers.
C28_LocalWithoutValueFallsThrough ==
    Finished("getAAII") /\ aaii # Null /\ aaii.bull = Null /\ aaii.bear = Null =>
        TriedPublicHttp

-----------------------------------------------------------------------------
(* parseAAII on tables that have a column for the bull-bear spread *)

\* "Date,Bull-Bear Spread,Bullish,Bearish"
HdrSpread ==
    <<"D", "a", "t", "e", ",", "B", "u", "l", "l", "-", "B", "e", "a", "r", " ", "S", "p", "r",
      "e", "a", "d", ",", "B", "u", "l", "l", "i", "s", "h", ",", "B", "e", "a", "r", "i", "s",
      "h">>
\* "2024-01-04,10.2,40.1,29.9"
AaiiSpreadRow ==
    <<"2", "0", "2", "4", "-", "0", "1", "-", "0", "4", ",", "1", "0", ".", "2", ",", "4", "0",
      ".", "1", ",", "2", "9", ".", "9">>

SpreadBodies == Bodies({HdrSpread, HdrAaii, HdrAaiiMoved}, {AaiiSpreadRow, AaiiGood, AaiiNeither, RowText})

InitSpread ==
    /\ pc = "parse"
    /\ idx = 0
    /\ net = "idle"
    /\ timer = {}
    /\ log = <<>>
    /\ failures = {}
    /\ vix = Null
    /\ putCall = Null
    /\ aaii = Null
    /\ stale = FALSE
    /\ response = NoResponse
    /\ fredKey = FALSE
    /\ csv \in SpreadBodies
    /\ got = NoResult

SpecSpread == InitSpread /\ [][CallAAII]_vars

\* bullIdx and bearIdx of parseAAII on the text it was given
bullIdx == FindIncludes(HeaderOf(NonBlankLines(csv)), Bull)
bearIdx == FindIncludes(HeaderOf(NonBlankLines(csv)), Bear)

\* C29 (as claimed): whenever parseAAII returns a record, bull and bear were
\* read from two different columns of the row, also under a heading such as
\* "Bull-Bear Spread" that contains both words.
C29_BullAndBearColumnsDiffer ==
    got.done /\ got.fn = "parseAAII" /\ got.value # Null => bullIdx # bearIdx

-----------------------------------------------------------------------------
(* The timers of fetchText and fetchJSON *)

\* the timers that may be armed: that of the request in flight, if it is one
\* made by fetchText or fetchJSON
ArmedNow == IF InFlight /\ Current # LocalFile THEN {Current} ELSE {}

\* C30: fetchText and fetchJSON leave no timer pending. However an attempt
\* ended (body read, status not ok, network error, abort) its timer is
\* cleared when it settles: the only timer armed at any time is that of the
\* request in flight, and none is left once GET has answered.
C30_NoTimerLeftPending ==
    /\ timer = ArmedNow
    /\ \A k \in 1..Len(log) : log[k].st # "pending" => log[k].src \notin timer

\* C30 witness: attempts have ended in each of the four ways and by being
\* accepted, and a later request is in flight with its own timer only
C30_Witness ==
    /\ InFlight
    /\ {"network", "status", "timeout", "read"} \subseteq failures
    /\ \E k \in 1..Len(log) : log[k].st = "accepted"
    /\ timer = {Current}

====
